---- MODULE Spec2Model ----
(***************************************************************************)
(* The Flappy Bird frontend (src/frontend/src/FlappyBird.tsx, and its      *)
(* near-duplicate src/unnamed/part_000) as a state machine: the mutable    *)
(* session held in gameStateRef, the refs and React state the handlers     *)
(* write, and one action per handler (gameLoop, handleCanvasClick,         *)
(* handleTouchStart, handleKeyPress, restartGame, the asset loader).       *)
(*                                                                         *)
(* Numbers.  The code computes in IEEE doubles; the model computes the     *)
(* same expressions exactly, in fixed point:                               *)
(*   time        integer milliseconds;                                     *)
(*   dt          in units of 1/DtScale   (MAX_DELTA_TIME = DtScale units); *)
(*   velocity    in units of 1/VelScale  (px per step);                    *)
(*   positions   in units of 1/PosScale  (px), on both axes.               *)
(* With DtScale = 50 every product the code forms (GRAVITY * dt,           *)
(* velocity * dt, PIPE_SPEED * dt, elapsed / (1000 / TARGET_FPS)) is an    *)
(* integer number of these units for integer-millisecond timestamps.       *)
(***************************************************************************)
EXTENDS Integers, Sequences, FiniteSets, TLC

\* ------------------------------------------------------------------------
\* Program constants (FlappyBird.tsx:19-30)
\* ------------------------------------------------------------------------

\* GRAVITY = 0.3, in tenths
GRAVITY == 3
\* JUMP_STRENGTH = 7.5, in tenths
JUMP_STRENGTH == 75
PIPE_WIDTH == 52
PIPE_GAP == 150
PIPE_SPEED == 2
BIRD_WIDTH == 34
BIRD_HEIGHT == 24
TARGET_FPS == 60
MAX_DELTA_TIME == 1
JUMP_COOLDOWN == 200
CANVAS_WIDTH == 288
CANVAS_HEIGHT == 512

\* Fixed-point denominators of the doubles dt, velocity and y / x.
DtScale == 50
VelScale == 10 * DtScale
PosScale == VelScale * DtScale

\* n pixels as a position
Px(n) == n * PosScale

\* Date.now() at the moment the page's time origin was taken: the handlers
\* read the wall clock (Date.now(), epoch milliseconds) and the frame
\* callback gets the time since the page's origin; the two differ by this.
TimeOrigin == 1000000

\* ------------------------------------------------------------------------
\* Bounds of the model
\* ------------------------------------------------------------------------

\* events (handler runs) explored after the initial state
MaxSteps == 4

\* milliseconds that may pass between one event and the next
Gaps == {10, 50, 200}

\* inputs in a row that are followed with no other handler between them
StreamSteps == 5

\* events after which the player and the network leave the page to its frame
\* callbacks, and the milliseconds between those callbacks
FallPrefix == 2
FallGap == 10

\* milliseconds that may pass before a response of the score service, a
\* press of Submit Score, or the page's teardown
ServiceGaps == {50}

\* milliseconds that may pass before a frame callback: the gaps above, and
\* the ten seconds of a page that was in the background
FrameGaps == Gaps \cup {10000}

\* Math.random() returns r / RandomScale for an r in 0 .. RandomScale - 1;
\* times n pixels that is a position of (r * n) / (RandomScale / PosScale)
RandomScale == (CANVAS_HEIGHT - PIPE_GAP - 100) * PosScale

\* values of Math.random() explored: 0, two in between, the largest below 1
Randoms == {0, 150 * PosScale, 261 * PosScale, RandomScale - 1}

\* SpawnHeight without the + 50
SpawnHeightNoMargin(r) ==
    (r * (CANVAS_HEIGHT - PIPE_GAP - 100)) \div (RandomScale \div PosScale)

\* Math.random() * (canvas.height - PIPE_GAP - 100) + 50
SpawnHeight(r) ==
    (r * (CANVAS_HEIGHT - PIPE_GAP - 100)) \div (RandomScale \div PosScale) + Px(50)

\* values the expression takes should a frame spawn
TopHeights == {SpawnHeight(r) : r \in Randoms}

VARIABLES
    gameState,      \* gameStateRef.current
    lastFrameTime,  \* lastFrameTimeRef.current
    lastJumpTime,   \* lastJumpTimeRef.current
    pendingSounds,  \* pendingSoundsRef.current: a Set, its keys in insertion order
    assetsLoaded, loadingError,
    isGameOver, isGameStarted, finalScore, hasSubmitted, leaderboard,
    isSubmitting,
    mounted,        \* the component is on the page
    frameRequests,  \* frame callbacks requested and neither run nor cancelled
    submission,     \* where submitScore stands: "idle", "posting", "refetching"
    fetches,        \* requests of the game-over effect's fetchLeaderboard in flight
    scores,         \* the backend's scores table, in insertion order
    request, reply, \* the request the backend handled last, and its response
    issued,         \* network calls started by the last handler, in order
    logged,         \* what the last handler wrote with console.error
    settled,        \* how the call the last handler completed had ended, or "none"
    clock,          \* milliseconds since the page's time origin
    played,         \* cues handed to playSoundImmediately by the last handler, in order
    ev,             \* history: the handler that ran last
    session,        \* history: number of restarts so far
    posts,          \* history: POST /api/scores requests sent since the session began
    retired,        \* history: obstacles retired in this session, by scored flag
    visited,        \* history: x of the obstacles the last handler's check loop went over
    steps           \* history: events so far (bounded by MaxSteps)

\* the backend's variables
serverVars == <<scores, request, reply>>

\* the score-service client's variables
netVars == <<isSubmitting, submission, fetches>>

vars == <<gameState, lastFrameTime, lastJumpTime, pendingSounds, assetsLoaded,
          loadingError, isGameOver, isGameStarted, finalScore, hasSubmitted,
          leaderboard, isSubmitting, mounted, frameRequests, submission, fetches,
          scores, request, reply, issued, logged, settled,
          clock, played, ev, session, posts, retired,
          visited, steps>>

\* ------------------------------------------------------------------------
\* The session
\* ------------------------------------------------------------------------

\* FreshGameState handing out the object of the first render whatever is asked
FreshGameStateUnstarted(started) ==
    [bird |-> [y |-> Px(200), velocity |-> 0, frame |-> 0],
     pipes |-> <<>>, score |-> 0,
     gameOver |-> FALSE, gameStarted |-> FALSE, frameCount |-> 0]

\* the object restartGame installs and useRef is given (gameStarted aside)
FreshGameState(started) ==
    [bird |-> [y |-> Px(200), velocity |-> 0, frame |-> 0],
     pipes |-> <<>>, score |-> 0,
     gameOver |-> FALSE, gameStarted |-> started, frameCount |-> 0]

Phase(state) ==
    IF ~state.gameStarted THEN "NotStarted"
    ELSE IF state.gameOver THEN "Over" ELSE "Running"

DateNow == TimeOrigin + clock

\* ------------------------------------------------------------------------
\* gameLoop: the pure parts
\* ------------------------------------------------------------------------

Min(a, b) == IF a < b THEN a ELSE b

\* the elements of a sequence
Range(seq) == {seq[i] : i \in DOMAIN seq}

\* StepMultiplier without the Math.min
StepMultiplierUnclamped(currentTime, last) ==
    ((currentTime - last) * TARGET_FPS * DtScale) \div 1000

\* let dt = (currentTime - lastFrameTimeRef.current) / (1000 / TARGET_FPS)
\* dt = Math.min(dt, MAX_DELTA_TIME)
StepMultiplier(currentTime, last) ==
    Min(((currentTime - last) * TARGET_FPS * DtScale) \div 1000,
        MAX_DELTA_TIME * DtScale)

\* Integrate moving the body by the velocity it had before the frame
IntegratePositionFirst(bird, dt) ==
    [bird EXCEPT !.velocity = @ + GRAVITY * dt, !.y = @ + bird.velocity * dt]

\* state.bird.velocity += GRAVITY * dt; state.bird.y += state.bird.velocity * dt
Integrate(bird, dt) ==
    LET v == bird.velocity + GRAVITY * dt
    IN  [bird EXCEPT !.velocity = v, !.y = @ + v * dt]

\* Animate turning the sprite one frame after every fifth
AnimateOffBeat(bird, frameCount) ==
    IF frameCount % 5 = 1 THEN [bird EXCEPT !.frame = (@ + 1) % 3] ELSE bird

\* state.frameCount++; if (state.frameCount % 5 === 0) bird.frame = (bird.frame + 1) % 3
Animate(bird, frameCount) ==
    IF frameCount % 5 = 0 THEN [bird EXCEPT !.frame = (@ + 1) % 3] ELSE bird

\* MovePipes with += for -=
MovePipesRight(pipes, dt) ==
    [i \in 1..Len(pipes) |-> [pipes[i] EXCEPT !.x = @ + PIPE_SPEED * dt * VelScale]]

\* MovePipes at thirty times the speed
MovePipesLeaping(pipes, dt) ==
    [i \in 1..Len(pipes) |-> [pipes[i] EXCEPT !.x = @ - 30 * PIPE_SPEED * dt * VelScale]]

\* state.pipes[i].x -= PIPE_SPEED * dt, for every i
MovePipes(pipes, dt) ==
    [i \in 1..Len(pipes) |-> [pipes[i] EXCEPT !.x = @ - PIPE_SPEED * dt * VelScale]]

\* OffScreen testing the obstacle's leading edge
OffScreenLeading(pipe) == pipe.x <= 0

\* if (state.pipes[i].x + PIPE_WIDTH <= 0) rm.push(i)
OffScreen(pipe) == pipe.x + Px(PIPE_WIDTH) <= 0

\* rm: the indices pushed by the advance loop, ascending
RemoveList(pipes) ==
    LET RECURSIVE Collect(_)
        Collect(i) ==
            IF i > Len(pipes) THEN <<>>
            ELSE (IF OffScreen(pipes[i]) THEN <<i>> ELSE <<>>) \o Collect(i + 1)
    IN  Collect(1)

\* pipes.splice(k, 1)
Splice(pipes, k) ==
    [i \in 1..(Len(pipes) - 1) |-> IF i < k THEN pipes[i] ELSE pipes[i + 1]]

\* RetirePipes with the loop running forward, for (let i = 0; i < rm.length; i++):
\* every splice shifts the obstacles behind it under the indices still to come
RetirePipesForward(pipes) ==
    LET rm == RemoveList(pipes)
        RECURSIVE Drop(_, _)
        Drop(ps, i) ==
            IF i > Len(rm) THEN ps
            ELSE Drop(IF rm[i] > Len(ps) THEN ps ELSE Splice(ps, rm[i]), i + 1)
    IN  Drop(pipes, 1)

\* for (let i = rm.length - 1; i >= 0; i--) state.pipes.splice(rm[i], 1)
RetirePipes(pipes) ==
    LET rm == RemoveList(pipes)
        RECURSIVE Drop(_, _)
        Drop(ps, i) == IF i = 0 THEN ps ELSE Drop(Splice(ps, rm[i]), i - 1)
    IN  Drop(pipes, Len(rm))

\* ShouldSpawn with a threshold of canvas.width - 100
ShouldSpawnEarly(pipes) ==
    Len(pipes) = 0 \/ pipes[Len(pipes)].x < Px(CANVAS_WIDTH - 100)

\* state.pipes.length === 0 || state.pipes[state.pipes.length - 1].x < canvas.width - 200
ShouldSpawn(pipes) ==
    Len(pipes) = 0 \/ pipes[Len(pipes)].x < Px(CANVAS_WIDTH - 200)

\* state.pipes.push({ x: canvas.width, topHeight, scored: false })
SpawnPipe(pipes, topHeight) ==
    IF ShouldSpawn(pipes)
    THEN Append(pipes, [x |-> Px(CANVAS_WIDTH), topHeight |-> topHeight, scored |-> FALSE])
    ELSE pipes

birdRect(bird) ==
    [x |-> Px(50), y |-> bird.y, width |-> Px(BIRD_WIDTH), height |-> Px(BIRD_HEIGHT)]

topPipeRect(pipe) ==
    [x |-> pipe.x, y |-> 0, width |-> Px(PIPE_WIDTH), height |-> pipe.topHeight]

bottomPipeRect(pipe) ==
    [x |-> pipe.x, y |-> pipe.topHeight + Px(PIPE_GAP), width |-> Px(PIPE_WIDTH),
     height |-> Px(CANVAS_HEIGHT) - pipe.topHeight - Px(PIPE_GAP)]

\* Intersects with the left-edge test admitting equality
IntersectsTouching(a, b) ==
    /\ a.x <= b.x + b.width
    /\ a.x + a.width > b.x
    /\ a.y < b.y + b.height
    /\ a.y + a.height > b.y

\* a.x < b.x + b.width && a.x + a.width > b.x && a.y < b.y + b.height && a.y + a.height > b.y
Intersects(a, b) ==
    /\ a.x < b.x + b.width
    /\ a.x + a.width > b.x
    /\ a.y < b.y + b.height
    /\ a.y + a.height > b.y

HitsPipe(bird, pipe) ==
    \/ Intersects(birdRect(bird), topPipeRect(pipe))
    \/ Intersects(birdRect(bird), bottomPipeRect(pipe))

\* ScoresNow without the test of the flag
ScoresNowUnflagged(pipe) == pipe.x + Px(PIPE_WIDTH) < Px(50)

\* ScoresNow testing the obstacle's leading edge
ScoresNowLeading(pipe) == ~pipe.scored /\ pipe.x < Px(50)

\* !pipe.scored && pipe.x + PIPE_WIDTH < 50
ScoresNow(pipe) == ~pipe.scored /\ pipe.x + Px(PIPE_WIDTH) < Px(50)

\* queueSound on an array: pendingSounds.push(key)
queueSoundPush(queue, key) == Append(queue, key)

\* pendingSoundsRef.current.add(key): a Set keeps a key once, where it was
\* first added
queueSound(queue, key) == IF key \in Range(queue) THEN queue ELSE Append(queue, key)

\* the queue after queueSound(calls[1]), queueSound(calls[2]), ...
RECURSIVE QueueAll(_, _)
QueueAll(queue, calls) ==
    IF calls = <<>> THEN queue
    ELSE QueueAll(queueSound(queue, Head(calls)), Tail(calls))

\* for (const pipe of state.pipes) { score; collide -> break }, from pipe i on:
\* the pipes with their scored flags, the score, whether the loop broke on a
\* hit, whether "point" was queued, how many pipes the loop went over, and
\* the keys the loop passed to queueSound, call by call.
RECURSIVE CheckPipes(_, _, _, _)
CheckPipes(pipes, i, score, bird) ==
    IF i > Len(pipes)
    THEN [pipes |-> pipes, score |-> score, hit |-> FALSE, point |-> FALSE,
          seen |-> Len(pipes), calls |-> <<>>]
    ELSE LET sc == ScoresNow(pipes[i])
             ps == IF sc THEN [pipes EXCEPT ![i].scored = TRUE] ELSE pipes
             s2 == IF sc THEN score + 1 ELSE score
         IN  IF HitsPipe(bird, ps[i])
             THEN [pipes |-> ps, score |-> s2, hit |-> TRUE, point |-> sc, seen |-> i,
                   calls |-> (IF sc THEN <<"point">> ELSE <<>>) \o <<"hit">>]
             ELSE LET r == CheckPipes(ps, i + 1, s2, bird)
                  IN  [r EXCEPT !.point = @ \/ sc,
                                !.calls = (IF sc THEN <<"point">> ELSE <<>>) \o @]

\* OutOfBounds with the bottom edge itself counted as out
OutOfBoundsAtEdge(bird) == bird.y >= Px(CANVAS_HEIGHT) \/ bird.y < 0

\* OutOfBounds with no test of the top
OutOfBoundsBelow(bird) == bird.y > Px(CANVAS_HEIGHT)

\* state.bird.y > canvas.height || state.bird.y < 0
OutOfBounds(bird) == bird.y > Px(CANVAS_HEIGHT) \/ bird.y < 0

\* CollisionPass with the score taken to be the number of obstacles on
\* screen that are flagged, instead of a counter
CollisionPassCountingLive(state) ==
    LET r == CheckPipes(state.pipes, 1, state.score, state.bird)
        over == r.hit \/ OutOfBounds(state.bird)
    IN  [state |-> [state EXCEPT !.pipes = r.pipes,
                                 !.score = Cardinality({i \in DOMAIN r.pipes : r.pipes[i].scored}),
                                 !.gameOver = @ \/ over],
         over |-> over,
         seen |-> r.seen,
         cues |-> QueueAll(<<>>, r.calls \o (IF OutOfBounds(state.bird) THEN <<"hit">> ELSE <<>>))]

\* CollisionPass that ends the run without queueing the hit cue
CollisionPassSilent(state) ==
    LET r == CheckPipes(state.pipes, 1, state.score, state.bird)
        over == r.hit \/ OutOfBounds(state.bird)
    IN  [state |-> [state EXCEPT !.pipes = r.pipes, !.score = r.score,
                                 !.gameOver = @ \/ over],
         over |-> over,
         seen |-> r.seen,
         cues |-> QueueAll(<<>>, SelectSeq(r.calls, LAMBDA key : key = "point"))]

\* lines 317-329: scoring, the collision test and the world bounds, on the
\* session as the advance left it.  over: state.gameOver was set; cues: the
\* sound queue, empty when the frame began, after the frame's queueSound calls.
CollisionPass(state) ==
    LET r == CheckPipes(state.pipes, 1, state.score, state.bird)
        over == r.hit \/ OutOfBounds(state.bird)
    IN  [state |-> [state EXCEPT !.pipes = r.pipes, !.score = r.score,
                                 !.gameOver = @ \/ over],
         over |-> over,
         seen |-> r.seen,
         cues |-> QueueAll(<<>>, r.calls \o (IF OutOfBounds(state.bird) THEN <<"hit">> ELSE <<>>))]

\* the x of every obstacle of a sequence
Xs(pipes) == [i \in 1..Len(pipes) |-> pipes[i].x]

\* lines 308-316: one running frame's advance (physics, animation, obstacle
\* motion, retirement, spawn)
Advance(state, dt, topHeight) ==
    LET fc == state.frameCount + 1
        moved == MovePipes(state.pipes, dt)
    IN  [state EXCEPT !.bird = Animate(Integrate(@, dt), fc),
                      !.frameCount = fc,
                      !.pipes = SpawnPipe(RetirePipes(moved), topHeight)]

\* obstacles the advance removes, by scored flag
RetiredBy(state, dt) ==
    LET moved == MovePipes(state.pipes, dt)
        off == {i \in 1..Len(moved) : OffScreen(moved[i])}
    IN  [scored |-> Cardinality({i \in off : moved[i].scored}),
         unscored |-> Cardinality({i \in off : ~moved[i].scored})]

\* ------------------------------------------------------------------------
\* jump and the input handlers
\* ------------------------------------------------------------------------

\* CooldownElapsed with the comparison turned into <=
CooldownElapsedStrictly(now, last) == ~(now - last <= JUMP_COOLDOWN)

\* if (now - lastJumpTimeRef.current < JUMP_COOLDOWN) return
CooldownElapsed(now, last) == ~(now - last < JUMP_COOLDOWN)

\* the branch jump takes once the cooldown has let it through
JumpBranch(state) ==
    IF ~state.gameOver /\ state.gameStarted THEN "flap"
    ELSE IF ~state.gameStarted THEN "start"
    ELSE "none"

\* Flap adding the impulse to the velocity
FlapAdding(state) == [state EXCEPT !.bird.velocity = @ - (JUMP_STRENGTH * DtScale)]

\* state.bird.velocity = -JUMP_STRENGTH
Flap(state) == [state EXCEPT !.bird.velocity = -(JUMP_STRENGTH * DtScale)]

\* Start giving the body its first impulse as well
StartFlapping(state) ==
    [state EXCEPT !.gameStarted = TRUE, !.bird.velocity = -(JUMP_STRENGTH * DtScale)]

\* state.gameStarted = true
Start(state) == [state EXCEPT !.gameStarted = TRUE]

\* no response has been sent
NoReply == [status |-> 0, error |-> "", rows |-> <<>>]

\* no request has been handled
NoRequest == [route |-> "none"]

\* the session as jump leaves it when the cooldown has elapsed
JumpState(state) ==
    CASE JumpBranch(state) = "flap" -> Flap(state)
      [] JumpBranch(state) = "start" -> Start(state)
      [] OTHER -> state

\* one more handler has run, d milliseconds after the one before
Event(d, name) ==
    /\ steps' = steps + 1
    /\ clock' = clock + d
    /\ ev' = name

\* the handler starts no network call and logs nothing
Quiet == issued' = <<>> /\ logged' = <<>> /\ settled' = "none"

\* requestAnimationFrame that requests nothing
requestAnimationFrameDropped(requests) == requests

\* requestAnimationFrame(gameLoop): one more callback is pending
requestAnimationFrame(requests) == requests + 1

\* cancelAnimationFrame that leaves the callback pending
cancelAnimationFrameLate(requests) == requests

\* cancelAnimationFrame(animationFrameId): the handle is that of the request
\* made last, which is pending exactly when any request is
cancelAnimationFrame(requests) == IF requests > 0 THEN requests - 1 ELSE 0

\* jump with an accepted impulse that makes no sound
jumpSilent(now) ==
    IF ~CooldownElapsed(now, lastJumpTime)
    THEN /\ played' = <<>>
         /\ visited' = <<>>
         /\ UNCHANGED <<gameState, lastJumpTime, lastFrameTime, isGameStarted>>
    ELSE /\ lastJumpTime' = now
         /\ gameState' = JumpState(gameState)
         /\ played' = <<>>
         /\ visited' = <<>>
         /\ IF JumpBranch(gameState) = "start"
            THEN isGameStarted' = TRUE /\ lastFrameTime' = 0
            ELSE UNCHANGED <<isGameStarted, lastFrameTime>>

\* jump with a request that comes too early taken as the last accepted one
jumpRefreshing(now) ==
    IF ~CooldownElapsed(now, lastJumpTime)
    THEN /\ lastJumpTime' = now
         /\ played' = <<>>
         /\ visited' = <<>>
         /\ UNCHANGED <<gameState, lastFrameTime, isGameStarted>>
    ELSE /\ lastJumpTime' = now
         /\ gameState' = JumpState(gameState)
         /\ played' = IF JumpBranch(gameState) = "flap" THEN <<"wing">> ELSE <<>>
         /\ visited' = <<>>
         /\ IF JumpBranch(gameState) = "start"
            THEN isGameStarted' = TRUE /\ lastFrameTime' = 0
            ELSE UNCHANGED <<isGameStarted, lastFrameTime>>

\* lines 229-237
jump(now) ==
    IF ~CooldownElapsed(now, lastJumpTime)
    THEN /\ played' = <<>>
         /\ visited' = <<>>
         /\ UNCHANGED <<gameState, lastJumpTime, lastFrameTime, isGameStarted>>
    ELSE /\ lastJumpTime' = now
         /\ gameState' = JumpState(gameState)
         /\ played' = IF JumpBranch(gameState) = "flap" THEN <<"wing">> ELSE <<>>
         /\ visited' = <<>>
         /\ IF JumpBranch(gameState) = "start"
            THEN isGameStarted' = TRUE /\ lastFrameTime' = 0
            ELSE UNCHANGED <<isGameStarted, lastFrameTime>>

\* what neither jump nor the key handler writes
InputFrame ==
    /\ Quiet
    /\ UNCHANGED <<pendingSounds, assetsLoaded, loadingError, isGameOver, finalScore,
                   hasSubmitted, leaderboard, session, posts, retired, mounted,
                   frameRequests, netVars, serverVars>>

\* PointerDown with a tap on the game-over screen leading back to the start
\* prompt instead of being dropped
PointerDownToTitle(now) ==
    IF gameState.gameOver
    THEN /\ gameState' = FreshGameState(FALSE)
         /\ played' = <<>>
         /\ visited' = <<>>
         /\ UNCHANGED <<lastJumpTime, lastFrameTime, isGameStarted>>
    ELSE jump(now)

\* if (gameStateRef.current.gameOver) return; jump()
PointerDown(now) ==
    IF gameState.gameOver
    THEN /\ played' = <<>>
         /\ visited' = <<>>
         /\ UNCHANGED <<gameState, lastJumpTime, lastFrameTime, isGameStarted>>
    ELSE jump(now)

\* the canvas is rendered, and takes clicks, once the assets are loaded
handleCanvasClickAt(d) ==
    /\ mounted /\ assetsLoaded
    /\ Event(d, "click")
    /\ PointerDown(TimeOrigin + clock + d)
    /\ InputFrame

handleTouchStartAt(d) ==
    /\ mounted /\ assetsLoaded
    /\ Event(d, "touch")
    /\ PointerDown(TimeOrigin + clock + d)
    /\ InputFrame

\* KeyDown with Space on the game-over screen starting a new run
KeyDownRestarting(now) ==
    IF ~gameState.gameStarted
    THEN /\ gameState' = Start(gameState)
         /\ isGameStarted' = TRUE
         /\ lastFrameTime' = 0
         /\ played' = <<>>
         /\ visited' = <<>>
         /\ UNCHANGED lastJumpTime
    ELSE IF ~gameState.gameOver
    THEN jump(now)
    ELSE /\ gameState' = FreshGameState(TRUE)
         /\ lastFrameTime' = 0
         /\ played' = <<>>
         /\ visited' = <<>>
         /\ UNCHANGED <<lastJumpTime, isGameStarted>>

\* KeyDown with the starting press recorded as an accepted impulse
KeyDownRecording(now) ==
    IF ~gameState.gameStarted
    THEN /\ gameState' = Start(gameState)
         /\ isGameStarted' = TRUE
         /\ lastFrameTime' = 0
         /\ lastJumpTime' = now
         /\ played' = <<>>
         /\ visited' = <<>>
    ELSE IF ~gameState.gameOver
    THEN jump(now)
    ELSE /\ played' = <<>>
         /\ visited' = <<>>
         /\ UNCHANGED <<gameState, lastJumpTime, lastFrameTime, isGameStarted>>

\* if (!state.gameStarted) { start } else if (!state.gameOver) jump()
KeyDown(now) ==
    IF ~gameState.gameStarted
    THEN /\ gameState' = Start(gameState)
         /\ isGameStarted' = TRUE
         /\ lastFrameTime' = 0
         /\ played' = <<>>
         /\ visited' = <<>>
         /\ UNCHANGED lastJumpTime
    ELSE IF ~gameState.gameOver
    THEN jump(now)
    ELSE /\ played' = <<>>
         /\ visited' = <<>>
         /\ UNCHANGED <<gameState, lastJumpTime, lastFrameTime, isGameStarted>>

\* keydown with e.code === "Space"; the listener is on window from the first render
handleKeyPressAt(d) ==
    /\ mounted
    /\ Event(d, "space")
    /\ KeyDown(TimeOrigin + clock + d)
    /\ InputFrame

\* JSX lines 417, 426 and 467 with the button withheld while a call is out
RestartOfferedWhenIdle ==
    assetsLoaded /\ isGameOver /\ submission = "idle" /\ fetches = 0

\* the Restart button is rendered (JSX lines 417, 426, 467): inside the
\* canvas wrapper of assetsLoaded, inside the overlay of isGameOver
RestartOffered == assetsLoaded /\ isGameOver

\* restartGameAt without lastFrameTimeRef.current = 0
restartGameKeepingFrameTimeAt(d) ==
    /\ mounted /\ RestartOffered
    /\ Event(d, "restart")
    /\ gameState' = FreshGameState(TRUE)
    /\ isGameOver' = FALSE
    /\ isGameStarted' = TRUE
    /\ hasSubmitted' = FALSE
    /\ leaderboard' = <<>>
    /\ finalScore' = 0
    /\ played' = <<>>
    /\ visited' = <<>>
    /\ session' = session + 1
    /\ posts' = 0
    /\ retired' = [scored |-> 0, unscored |-> 0]
    /\ Quiet
    /\ UNCHANGED <<lastFrameTime, lastJumpTime, pendingSounds, assetsLoaded, loadingError,
                   mounted, frameRequests, netVars, serverVars>>

\* the Restart button of the game-over overlay
restartGameAt(d) ==
    /\ mounted /\ RestartOffered
    /\ Event(d, "restart")
    /\ gameState' = FreshGameState(TRUE)
    /\ isGameOver' = FALSE
    /\ isGameStarted' = TRUE
    /\ hasSubmitted' = FALSE
    /\ leaderboard' = <<>>
    /\ finalScore' = 0
    /\ lastFrameTime' = 0
    /\ played' = <<>>
    /\ visited' = <<>>
    /\ session' = session + 1
    /\ posts' = 0
    /\ retired' = [scored |-> 0, unscored |-> 0]
    /\ Quiet
    /\ UNCHANGED <<lastJumpTime, pendingSounds, assetsLoaded, loadingError, mounted,
                   frameRequests, netVars, serverVars>>

\* ------------------------------------------------------------------------
\* gameLoop
\* ------------------------------------------------------------------------

\* gameLoopAt without the test of state.gameOver: a finished run keeps moving
gameLoopUnfrozenAt(d, topHeight) ==
    LET currentTime == clock + d
        last == IF lastFrameTime = 0 THEN currentTime ELSE lastFrameTime
        dt == StepMultiplier(currentTime, last)
        adv == Advance(gameState, dt, topHeight)
        res == CollisionPass(adv)
        gone == RetiredBy(gameState, dt)
    IN  /\ frameRequests > 0
        /\ Event(d, "frame")
        /\ played' = pendingSounds
        /\ lastFrameTime' = currentTime
        /\ frameRequests' = requestAnimationFrame(frameRequests - 1)
        /\ logged' = <<>>
        /\ settled' = "none"
        /\ IF gameState.gameStarted
           THEN /\ gameState' = res.state
                /\ pendingSounds' = res.cues
                /\ visited' = SubSeq(Xs(adv.pipes), 1, res.seen)
                /\ retired' = [scored |-> retired.scored + gone.scored,
                               unscored |-> retired.unscored + gone.unscored]
                /\ IF res.over
                   THEN finalScore' = res.state.score /\ isGameOver' = TRUE
                   ELSE UNCHANGED <<finalScore, isGameOver>>
                /\ IF res.over /\ ~isGameOver
                   THEN fetches' = fetches + 1 /\ issued' = <<"GET">>
                   ELSE fetches' = fetches /\ issued' = <<>>
           ELSE /\ pendingSounds' = <<>>
                /\ visited' = <<>>
                /\ issued' = <<>>
                /\ UNCHANGED <<gameState, retired, finalScore, isGameOver, fetches>>
        /\ UNCHANGED <<lastJumpTime, assetsLoaded, loadingError, isGameStarted,
                       hasSubmitted, leaderboard, session, posts, mounted, isSubmitting,
                       submission, serverVars>>

\* the frame callback, called with timestamp clock + d; topHeight is the
\* value the Math.random() expression takes should this frame spawn.  Either
\* way out (lines 305, 343) requests the next callback.  setIsGameOver(true)
\* makes React render and run the effect of line 349, which calls
\* fetchLeaderboard: the request goes out once the callback has returned
gameLoopAt(d, topHeight) ==
    LET currentTime == clock + d
        last == IF lastFrameTime = 0 THEN currentTime ELSE lastFrameTime
        dt == StepMultiplier(currentTime, last)
        adv == Advance(gameState, dt, topHeight)
        res == CollisionPass(adv)
        gone == RetiredBy(gameState, dt)
    IN  /\ frameRequests > 0
        /\ Event(d, "frame")
        /\ played' = pendingSounds
        /\ lastFrameTime' = currentTime
        /\ frameRequests' = requestAnimationFrame(frameRequests - 1)
        /\ logged' = <<>>
        /\ settled' = "none"
        /\ IF gameState.gameStarted /\ ~gameState.gameOver
           THEN /\ gameState' = res.state
                /\ pendingSounds' = res.cues
                /\ visited' = SubSeq(Xs(adv.pipes), 1, res.seen)
                /\ retired' = [scored |-> retired.scored + gone.scored,
                               unscored |-> retired.unscored + gone.unscored]
                /\ IF res.over
                   THEN finalScore' = res.state.score /\ isGameOver' = TRUE
                   ELSE UNCHANGED <<finalScore, isGameOver>>
                /\ IF res.over /\ ~isGameOver
                   THEN fetches' = fetches + 1 /\ issued' = <<"GET">>
                   ELSE fetches' = fetches /\ issued' = <<>>
           ELSE /\ pendingSounds' = <<>>
                /\ visited' = <<>>
                /\ issued' = <<>>
                /\ UNCHANGED <<gameState, retired, finalScore, isGameOver, fetches>>
        /\ UNCHANGED <<lastJumpTime, assetsLoaded, loadingError, isGameStarted,
                       hasSubmitted, leaderboard, session, posts, mounted, isSubmitting,
                       submission, serverVars>>

\* ------------------------------------------------------------------------
\* The asset loader (lines 196-213)
\* ------------------------------------------------------------------------

AssetFrame ==
    /\ issued' = <<>>
    /\ UNCHANGED <<gameState, lastFrameTime, lastJumpTime, pendingSounds, isGameOver,
                   isGameStarted, finalScore, hasSubmitted, leaderboard, session, posts,
                   retired, mounted, netVars, serverVars>>

\* Promise.all(...).then: setAssetsLoaded(true); the render that follows
\* mounts the canvas and runs the effect of lines 287-347, which requests the
\* first frame callback.  (On a page that is gone the setters do nothing.)
assetsResolvedAt(d) ==
    /\ mounted /\ ~assetsLoaded /\ ~loadingError
    /\ Event(d, "loaded")
    /\ assetsLoaded' = TRUE
    /\ frameRequests' = requestAnimationFrame(frameRequests)
    /\ logged' = <<>>
    /\ settled' = "none"
    /\ played' = <<>>
    /\ visited' = <<>>
    /\ UNCHANGED loadingError
    /\ AssetFrame

\* .catch: console.error, setLoadingError(error.message)
assetsRejectedAt(d) ==
    /\ mounted /\ ~assetsLoaded /\ ~loadingError
    /\ Event(d, "failed")
    /\ loadingError' = TRUE
    /\ logged' = <<"Asset loading error:">>
    /\ settled' = "none"
    /\ UNCHANGED frameRequests
    /\ played' = <<>>
    /\ visited' = <<>>
    /\ UNCHANGED assetsLoaded
    /\ AssetFrame

\* ------------------------------------------------------------------------
\* The score service's client (lines 241-263, 349) and the page's teardown
\* ------------------------------------------------------------------------

\* a useState setter called with v where the state holds old: React drops
\* the update of a component that is no longer on the page
SetState(old, v) == IF mounted THEN v ELSE old

\* leaderboards the service may answer with (LeaderboardEntry, lines 6-10)
Boards == {<<>>, <<[player_name |-> "Ann", score |-> 9, created_at |-> 1]>>}

\* how a call may end: an ok response and its body, a response that is not
\* ok, a rejected fetch (or a body that is not JSON)
Responses ==
    {[kind |-> "ok", data |-> b] : b \in Boards}
        \cup {[kind |-> "status", data |-> <<>>], [kind |-> "error", data |-> <<>>]}

\* if (res.ok) setLeaderboard(await res.json())
FetchedBoard(res) ==
    IF res.kind = "ok" THEN SetState(leaderboard, res.data) ELSE leaderboard

\* catch (err) { console.error("Failed to fetch leaderboard:", err) }
FetchLog(res) ==
    IF res.kind = "error" THEN <<"Failed to fetch leaderboard:">> ELSE <<>>

\* what no handler of the client writes
ServiceFrame ==
    /\ played' = <<>>
    /\ visited' = <<>>
    /\ UNCHANGED <<gameState, lastFrameTime, lastJumpTime, pendingSounds,
                   assetsLoaded, loadingError, isGameOver, isGameStarted,
                   finalScore, mounted, frameRequests, serverVars, session, retired>>

\* the fetchLeaderboard of the game-over effect settles
fetchSettled ==
    \E d \in ServiceGaps, res \in Responses :
        /\ steps < MaxSteps
        /\ fetches > 0
        /\ Event(d, "fetched")
        /\ fetches' = fetches - 1
        /\ leaderboard' = FetchedBoard(res)
        /\ logged' = FetchLog(res)
        /\ settled' = res.kind
        /\ issued' = <<>>
        /\ UNCHANGED <<hasSubmitted, isSubmitting, submission, posts>>
        /\ ServiceFrame

\* SubmitOffered with the button left enabled while a request is out
SubmitOfferedWhileSaving == RestartOffered /\ ~hasSubmitted

\* the Submit Score button is rendered and enabled (JSX lines 436, 443)
SubmitOffered == RestartOffered /\ ~hasSubmitted /\ ~isSubmitting

\* submitScore up to its first await (lines 249-258)
submitScore ==
    \E d \in ServiceGaps :
        /\ steps < MaxSteps
        /\ mounted /\ SubmitOffered
        /\ Event(d, "submit")
        /\ isSubmitting' = TRUE
        /\ submission' = "posting"
        /\ issued' = <<"POST">>
        /\ posts' = posts + 1
        /\ logged' = <<>>
        /\ settled' = "none"
        /\ UNCHANGED <<hasSubmitted, leaderboard, fetches>>
        /\ ServiceFrame

\* the POST settles (lines 258-262): a response of any status goes on to
\* setHasSubmitted(true) and fetchLeaderboard(), a rejection to the catch
postSettled ==
    \E d \in ServiceGaps, kind \in {"ok", "status", "error"} :
        /\ steps < MaxSteps
        /\ submission = "posting"
        /\ Event(d, "posted")
        /\ settled' = kind
        /\ IF kind = "error"
           THEN /\ logged' = <<"Failed to submit score:">>
                /\ isSubmitting' = SetState(isSubmitting, FALSE)
                /\ submission' = "idle"
                /\ issued' = <<>>
                /\ UNCHANGED hasSubmitted
           ELSE /\ hasSubmitted' = SetState(hasSubmitted, TRUE)
                /\ submission' = "refetching"
                /\ issued' = <<"GET">>
                /\ logged' = <<>>
                /\ UNCHANGED isSubmitting
        /\ UNCHANGED <<leaderboard, fetches, posts>>
        /\ ServiceFrame

\* the fetchLeaderboard awaited by submitScore settles (lines 260, 262)
refetchSettled ==
    \E d \in ServiceGaps, res \in Responses :
        /\ steps < MaxSteps
        /\ submission = "refetching"
        /\ Event(d, "refetched")
        /\ leaderboard' = FetchedBoard(res)
        /\ logged' = FetchLog(res)
        /\ settled' = res.kind
        /\ isSubmitting' = SetState(isSubmitting, FALSE)
        /\ submission' = "idle"
        /\ issued' = <<>>
        /\ UNCHANGED <<hasSubmitted, fetches, posts>>
        /\ ServiceFrame

\* the component leaves the page: the cleanups of lines 282 and 346 run (the
\* effect of line 287 has a cleanup only once it got past line 288)
unmount ==
    \E d \in ServiceGaps :
        /\ steps < MaxSteps
        /\ mounted
        /\ Event(d, "unmount")
        /\ mounted' = FALSE
        /\ frameRequests' = IF assetsLoaded THEN cancelAnimationFrame(frameRequests)
                            ELSE frameRequests
        /\ played' = <<>>
        /\ visited' = <<>>
        /\ Quiet
        /\ UNCHANGED <<gameState, lastFrameTime, lastJumpTime, pendingSounds,
                       assetsLoaded, loadingError, isGameOver, isGameStarted,
                       finalScore, hasSubmitted, leaderboard, netVars, serverVars,
                       session, posts, retired>>

\* ------------------------------------------------------------------------
\* States of a run in progress
\*
\* A run takes some 150 frames to bring its first obstacle to the body.  The
\* states below are where the program stands after the inputs of a plan: the
\* assets load 200 ms after the first render, Space starts the run 200 ms
\* later, and from then on a frame callback runs every 200 ms (a step of 1),
\* preceded by a click, another 200 ms earlier, before the frames the plan
\* names; every spawn draws the plan's topHeight.  SpecReplay... below replay
\* each plan with the handlers of this module and arrive at these states.
\* ------------------------------------------------------------------------

\* After 145 frames of the run PreScorePlan: the first obstacle (gap top 200) is at x = 0, the body inside the gap:
\* two more full steps take its trailing edge past the body's anchor.
PreScorePlan == [clicks |-> {28, 77, 126}, topHeight |-> Px(200), frames |-> 145]

PreScore ==
    [gameState |-> [bird |-> [y |-> 5457500, velocity |-> -750, frame |-> 2],
                      pipes |-> <<[x |-> 0, topHeight |-> 5000000, scored |-> FALSE],
                                [x |-> 5050000, topHeight |-> 5000000, scored |-> FALSE]>>,
                      score |-> 0, gameOver |-> FALSE, gameStarted |-> TRUE, frameCount |-> 145],
        lastFrameTime |-> 30001, lastJumpTime |-> 1026001, clock |-> 30001, pendingSounds |-> <<>>,
        played |-> <<>>, isGameOver |-> FALSE, finalScore |-> 0,
        retired |-> [scored |-> 0, unscored |-> 0]]

\* After 102 frames of the run PreHitPlan: the first obstacle (gap top 311) is at x = 86 and the body above its gap
\* at y = 174.8: two more full steps bring them to overlap.
PreHitPlan == [clicks |-> {20, 69}, topHeight |-> Px(311), frames |-> 102]

PreHit ==
    [gameState |-> [bird |-> [y |-> 4370000, velocity |-> 1350, frame |-> 2],
                      pipes |-> <<[x |-> 2150000, topHeight |-> 7775000, scored |-> FALSE],
                                [x |-> 7200000, topHeight |-> 7775000, scored |-> FALSE]>>,
                      score |-> 0, gameOver |-> FALSE, gameStarted |-> TRUE, frameCount |-> 102],
        lastFrameTime |-> 21201, lastJumpTime |-> 1014401, clock |-> 21201, pendingSounds |-> <<>>,
        played |-> <<>>, isGameOver |-> FALSE, finalScore |-> 0,
        retired |-> [scored |-> 0, unscored |-> 0]]

\* After 100 frames of the run PreHitPlan: the only obstacle is at x = 90: one full step brings it to 88, where
\* the spawn test still fails, the next to 86, where it succeeds.
PreSpawnPlan == [clicks |-> {20, 69}, topHeight |-> Px(311), frames |-> 100]

PreSpawn ==
    [gameState |-> [bird |-> [y |-> 4242500, velocity |-> 1050, frame |-> 2],
                      pipes |-> <<[x |-> 2250000, topHeight |-> 7775000, scored |-> FALSE]>>,
                      score |-> 0, gameOver |-> FALSE, gameStarted |-> TRUE, frameCount |-> 100],
        lastFrameTime |-> 20801, lastJumpTime |-> 1014401, clock |-> 20801, pendingSounds |-> <<>>,
        played |-> <<>>, isGameOver |-> FALSE, finalScore |-> 0,
        retired |-> [scored |-> 0, unscored |-> 0]]

\* After 103 frames of the run PreDoublePlan: the body is at y = 0.2, rising, and the first obstacle's leading
\* edge at x = 84 touches the body's right edge: the next full step takes the body above 0 and into the obstacle.
PreDoublePlan == [clicks |-> {3, 29, 76, 103}, topHeight |-> Px(200), frames |-> 103]

PreDouble ==
    [gameState |-> [bird |-> [y |-> 5000, velocity |-> -3600, frame |-> 2],
                      pipes |-> <<[x |-> 2100000, topHeight |-> 5000000, scored |-> FALSE],
                                [x |-> 7150000, topHeight |-> 5000000, scored |-> FALSE]>>,
                      score |-> 0, gameOver |-> FALSE, gameStarted |-> TRUE, frameCount |-> 103],
        lastFrameTime |-> 21801, lastJumpTime |-> 1021601, clock |-> 21801, pendingSounds |-> <<>>,
        played |-> <<>>, isGameOver |-> FALSE, finalScore |-> 0,
        retired |-> [scored |-> 0, unscored |-> 0]]

\* After 83 frames of the run PreGroundPlan: the body falls at y = 496.4 with velocity 15.3: one full step puts it
\* at y = 512 exactly, the next one below the bottom.
PreGroundPlan == [clicks |-> {6, 7, 8}, topHeight |-> Px(200), frames |-> 83]

PreGround ==
    [gameState |-> [bird |-> [y |-> 12410000, velocity |-> 7650, frame |-> 1],
                      pipes |-> <<[x |-> 3100000, topHeight |-> 5000000, scored |-> FALSE]>>,
                      score |-> 0, gameOver |-> FALSE, gameStarted |-> TRUE, frameCount |-> 83],
        lastFrameTime |-> 17601, lastJumpTime |-> 1002401, clock |-> 17601, pendingSounds |-> <<>>,
        played |-> <<>>, isGameOver |-> FALSE, finalScore |-> 0,
        retired |-> [scored |-> 0, unscored |-> 0]]

\* After 28 frames of the run PreTopPlan: the body climbs at y = 5.6 with velocity -7.2: the next step puts it
\* above the top.
PreTopPlan == [clicks |-> 1..28, topHeight |-> Px(200), frames |-> 28]

PreTop ==
    [gameState |-> [bird |-> [y |-> 140000, velocity |-> -3600, frame |-> 2],
                      pipes |-> <<[x |-> 5850000, topHeight |-> 5000000, scored |-> FALSE]>>,
                      score |-> 0, gameOver |-> FALSE, gameStarted |-> TRUE, frameCount |-> 28],
        lastFrameTime |-> 11601, lastJumpTime |-> 1011401, clock |-> 11601, pendingSounds |-> <<>>,
        played |-> <<>>, isGameOver |-> FALSE, finalScore |-> 0,
        retired |-> [scored |-> 0, unscored |-> 0]]

\* After 170 frames of the run PreRetirePlan: the first obstacle, passed, is at x = -50: one full step retires it.
PreRetirePlan == [clicks |-> {28, 77, 126}, topHeight |-> Px(200), frames |-> 170]

PreRetire ==
    [gameState |-> [bird |-> [y |-> 6957500, velocity |-> 3000, frame |-> 1],
                      pipes |-> <<[x |-> -1250000, topHeight |-> 5000000, scored |-> TRUE],
                                [x |-> 3800000, topHeight |-> 5000000, scored |-> FALSE]>>,
                      score |-> 1, gameOver |-> FALSE, gameStarted |-> TRUE, frameCount |-> 170],
        lastFrameTime |-> 35001, lastJumpTime |-> 1026001, clock |-> 35001, pendingSounds |-> <<>>,
        played |-> <<>>, isGameOver |-> FALSE, finalScore |-> 0,
        retired |-> [scored |-> 0, unscored |-> 0]]

\* After 782 frames of the run OverSevenPlan: the run has ended on the ground with seven obstacles passed and retired
\* and an eighth on screen.
OverSevenPlan == [clicks |-> {28, 77, 126, 175, 224, 273, 322, 371, 420, 469, 518, 567, 616, 665, 714}, topHeight |-> Px(200), frames |-> 782]

OverSeven ==
    [gameState |-> [bird |-> [y |-> 12807500, velocity |-> 6600, frame |-> 0],
                      pipes |-> <<[x |-> 3500000, topHeight |-> 5000000, scored |-> FALSE]>>,
                      score |-> 7, gameOver |-> TRUE, gameStarted |-> TRUE, frameCount |-> 782],
        lastFrameTime |-> 159801, lastJumpTime |-> 1146001, clock |-> 159801, pendingSounds |-> <<"hit">>,
        played |-> <<>>, isGameOver |-> TRUE, finalScore |-> 7,
        retired |-> [scored |-> 7, unscored |-> 0]]

Snapshots == {PreScore, PreHit, PreSpawn, PreDouble, PreGround, PreTop, PreRetire, OverSeven}

\* ------------------------------------------------------------------------
\* Specification
\* ------------------------------------------------------------------------

\* the component's first render: the refs and state of lines 41-73
Constructed ==
    /\ gameState = FreshGameState(FALSE)
    /\ lastFrameTime = 0
    /\ lastJumpTime = 0
    /\ pendingSounds = <<>>
    /\ assetsLoaded = FALSE
    /\ loadingError = FALSE
    /\ isGameOver = FALSE
    /\ isGameStarted = FALSE
    /\ finalScore = 0
    /\ hasSubmitted = FALSE
    /\ leaderboard = <<>>
    /\ isSubmitting = FALSE
    /\ mounted = TRUE
    /\ frameRequests = 0
    /\ submission = "idle"
    /\ fetches = 0
    /\ scores = <<>>
    /\ request = NoRequest
    /\ reply = NoReply
    /\ issued = <<>>
    /\ logged = <<>>
    /\ settled = "none"
    /\ clock = 1
    /\ played = <<>>
    /\ ev = "init"
    /\ session = 0
    /\ posts = 0
    /\ retired = [scored |-> 0, unscored |-> 0]
    /\ visited = <<>>
    /\ steps = 0

\* what a snapshot records of the state
Recorded ==
    [gameState |-> gameState, lastFrameTime |-> lastFrameTime,
     lastJumpTime |-> lastJumpTime, clock |-> clock,
     pendingSounds |-> pendingSounds, played |-> played,
     isGameOver |-> isGameOver, finalScore |-> finalScore, retired |-> retired]

\* the page around the session
Page ==
    [assetsLoaded |-> assetsLoaded, loadingError |-> loadingError,
     isGameStarted |-> isGameStarted, hasSubmitted |-> hasSubmitted,
     leaderboard |-> leaderboard, isSubmitting |-> isSubmitting,
     mounted |-> mounted, frameRequests |-> frameRequests,
     submission |-> submission, fetches |-> fetches, issued |-> issued,
     logged |-> logged, settled |-> settled, session |-> session]

\* the page around a session that is in the state s: the loop is running;
\* when s is the state after a game-over frame, the request of the game-over
\* effect is out
ResumedPage(s) ==
    [assetsLoaded |-> TRUE, loadingError |-> FALSE, isGameStarted |-> TRUE,
     hasSubmitted |-> FALSE, leaderboard |-> <<>>, isSubmitting |-> FALSE,
     mounted |-> TRUE, frameRequests |-> 1, submission |-> "idle",
     fetches |-> IF s.isGameOver THEN 1 ELSE 0,
     issued |-> IF s.isGameOver THEN <<"GET">> ELSE <<>>,
     logged |-> <<>>, settled |-> "none", session |-> 0]

\* the program in the state s, its last handler a frame callback
Resumed(s) ==
    /\ gameState = s.gameState
    /\ lastFrameTime = s.lastFrameTime
    /\ lastJumpTime = s.lastJumpTime
    /\ clock = s.clock
    /\ pendingSounds = s.pendingSounds
    /\ played = s.played
    /\ isGameOver = s.isGameOver
    /\ finalScore = s.finalScore
    /\ retired = s.retired
    /\ visited = Xs(s.gameState.pipes)
    /\ assetsLoaded = TRUE
    /\ loadingError = FALSE
    /\ isGameStarted = TRUE
    /\ hasSubmitted = FALSE
    /\ leaderboard = <<>>
    /\ isSubmitting = FALSE
    /\ mounted = TRUE
    /\ frameRequests = 1
    /\ submission = "idle"
    /\ fetches = IF s.isGameOver THEN 1 ELSE 0
    /\ scores = <<>>
    /\ request = NoRequest
    /\ reply = NoReply
    /\ issued = IF s.isGameOver THEN <<"GET">> ELSE <<>>
    /\ logged = <<>>
    /\ settled = "none"
    /\ ev = "frame"
    /\ session = 0
    /\ posts = 0
    /\ steps = 0

Init == Constructed \/ \E s \in Snapshots : Resumed(s)

\* the handlers, each some milliseconds after the handler before it
gameLoop ==
    \E d \in FrameGaps, topHeight \in TopHeights :
        steps < MaxSteps /\ gameLoopAt(d, topHeight)

handleCanvasClick == \E d \in Gaps : steps < MaxSteps /\ handleCanvasClickAt(d)

handleTouchStart == \E d \in Gaps : steps < MaxSteps /\ handleTouchStartAt(d)

handleKeyPress == \E d \in Gaps : steps < MaxSteps /\ handleKeyPressAt(d)

restartGame == \E d \in Gaps : steps < MaxSteps /\ restartGameAt(d)

assetsResolved == \E d \in Gaps : steps < MaxSteps /\ assetsResolvedAt(d)

assetsRejected == \E d \in Gaps : steps < MaxSteps /\ assetsRejectedAt(d)

Next ==
    \/ gameLoop
    \/ handleCanvasClick
    \/ handleTouchStart
    \/ handleKeyPress
    \/ restartGame
    \/ assetsResolved
    \/ assetsRejected
    \/ fetchSettled
    \/ submitScore
    \/ postSettled
    \/ refetchSettled
    \/ unmount

Spec == Init /\ [][Next]_vars

\* ------------------------------------------------------------------------
\* Inputs in a row
\*
\* A player taps faster than the cooldown lets through: SpecStream follows
\* the input handlers alone, StreamSteps of them in a row, from the sessions
\* recorded above, so that a request arrives 200 ms after an accepted one
\* with dropped requests in between.
\* ------------------------------------------------------------------------

StreamNext ==
    \/ \E d \in Gaps : steps < StreamSteps /\ handleCanvasClickAt(d)
    \/ \E d \in Gaps : steps < StreamSteps /\ handleTouchStartAt(d)
    \/ \E d \in Gaps : steps < StreamSteps /\ handleKeyPressAt(d)

SpecStream == (\E s \in Snapshots : Resumed(s)) /\ [][StreamNext]_vars

\* ------------------------------------------------------------------------
\* A run left to itself
\*
\* Every frame callback ends by requesting the next one (lines 305, 343), so
\* while the page is up a requested callback does run.  SpecFall lets
\* FallPrefix events of any kind happen and from then on only frame
\* callbacks of a Running session, FallGap milliseconds apart, with no bound
\* on their number; a callback that is requested is eventually run.
\*
\* The callback's only condition is a pending request, and it is the one
\* step of the tail, so the fairness condition is stated on that condition
\* and on the step counter every callback advances.
\* ------------------------------------------------------------------------

gameLoopAlone ==
    /\ steps >= FallPrefix
    /\ Phase(gameState) = "Running"
    /\ \E topHeight \in TopHeights : gameLoopAt(FallGap, topHeight)

gameLoopRequested ==
    /\ steps >= FallPrefix
    /\ Phase(gameState) = "Running"
    /\ frameRequests > 0
    /\ steps' = steps + 1

SpecFall ==
    /\ Init
    /\ [][(steps < FallPrefix /\ Next) \/ gameLoopAlone]_vars
    /\ WF_steps(gameLoopRequested)

\* ------------------------------------------------------------------------
\* Frames on drawn obstacle sequences
\*
\* The spawn test keeps the obstacles of a run some 200 apart, so that a run
\* never has two of them leave the screen in one frame.  What a frame does
\* to a sequence is a function of the sequence; SpecRetire adds to the
\* program's behaviours one handler run on a Running session whose sequence
\* is drawn from the sorted sequences over positions around the left edge.
\* ------------------------------------------------------------------------

\* obstacle x: off screen, at the edge (x + 52 = 0 after a step of 2 or of
\* 1.2), around it, in the body's column, around the spawn threshold
RetireXs ==
    {Px(-120), Px(-60), Px(-51) + 5000, Px(-50), Px(-49), Px(60), Px(86), Px(150), Px(250)}

RetireSequences ==
    LET pipe(x) == [x |-> x, topHeight |-> Px(200), scored |-> x + Px(PIPE_WIDTH) < Px(50)]
    IN  {<<>>} \cup
        {<<pipe(a)>> : a \in RetireXs} \cup
        {<<pipe(a), pipe(b)>> : a, b \in RetireXs} \cup
        {<<pipe(a), pipe(b), pipe(c)>> : a, b, c \in RetireXs}

\* pipes is in the order the program keeps: leftmost first
Sorted(pipes) == \A i, j \in DOMAIN pipes : i < j => pipes[i].x < pipes[j].x

RetireInit ==
    \E pipes \in {ps \in RetireSequences : Sorted(ps)} :
        /\ gameState = [bird |-> [y |-> Px(250), velocity |-> 0, frame |-> 0],
                        pipes |-> pipes,
                        score |-> Cardinality({i \in DOMAIN pipes : pipes[i].scored}),
                        gameOver |-> FALSE, gameStarted |-> TRUE, frameCount |-> 1]
        /\ lastFrameTime = 5000
        /\ lastJumpTime = 0
        /\ pendingSounds = <<>>
        /\ assetsLoaded = TRUE
        /\ loadingError = FALSE
        /\ isGameOver = FALSE
        /\ isGameStarted = TRUE
        /\ finalScore = 0
        /\ hasSubmitted = FALSE
        /\ leaderboard = <<>>
        /\ isSubmitting = FALSE
        /\ mounted = TRUE
        /\ frameRequests = 1
        /\ submission = "idle"
        /\ fetches = 0
        /\ scores = <<>>
        /\ request = NoRequest
        /\ reply = NoReply
        /\ issued = <<>>
        /\ logged = <<>>
        /\ settled = "none"
        /\ clock = 5000
        /\ played = <<>>
        /\ ev = "frame"
        /\ session = 0
        /\ posts = 0
        /\ retired = [scored |-> 0, unscored |-> 0]
        /\ visited = <<>>
        /\ steps = MaxSteps - 1

RetireStart == Init \/ RetireInit

SpecRetire == RetireStart /\ [][Next]_vars

\* ------------------------------------------------------------------------
\* The collision pass on its own
\*
\* CollisionPass is a function of the body's y and the obstacles.  SpecOracle
\* applies it once to a Running session whose body and obstacle are drawn
\* from the positions around every edge of the test.
\* ------------------------------------------------------------------------

\* body y: around the top bound, the two edges of a gap at 200, the bottom bound
OracleYs ==
    {-1, 0, 1, Px(100), Px(199), Px(200) - 1, Px(200), Px(200) + 1, Px(201),
     Px(250), Px(325), Px(326) - 1, Px(326), Px(326) + 1, Px(327), Px(400),
     Px(512) - 1, Px(512), Px(512) + 1, Px(513)}

\* obstacle x: around the body's right edge (84) and left edge (50 - 52 = -2)
OracleXs ==
    {Px(-50), Px(-3), Px(-2) - 1, Px(-2), Px(-2) + 1, Px(-1), Px(20),
     Px(83), Px(84) - 1, Px(84), Px(84) + 1, Px(85), Px(200)}

OracleObstacles ==
    {<<>>} \cup
    {<<[x |-> x, topHeight |-> Px(200), scored |-> x + Px(PIPE_WIDTH) < Px(50)]>> :
        x \in OracleXs}

OracleInit ==
    \E y \in OracleYs, pipes \in OracleObstacles :
        /\ gameState = [bird |-> [y |-> y, velocity |-> 0, frame |-> 0],
                        pipes |-> pipes,
                        score |-> Cardinality({i \in DOMAIN pipes : pipes[i].scored}),
                        gameOver |-> FALSE, gameStarted |-> TRUE, frameCount |-> 1]
        /\ lastFrameTime = 1
        /\ lastJumpTime = 0
        /\ pendingSounds = <<>>
        /\ assetsLoaded = TRUE
        /\ loadingError = FALSE
        /\ isGameOver = FALSE
        /\ isGameStarted = TRUE
        /\ finalScore = 0
        /\ hasSubmitted = FALSE
        /\ leaderboard = <<>>
        /\ isSubmitting = FALSE
        /\ mounted = TRUE
        /\ frameRequests = 1
        /\ submission = "idle"
        /\ fetches = 0
        /\ scores = <<>>
        /\ request = NoRequest
        /\ reply = NoReply
        /\ issued = <<>>
        /\ logged = <<>>
        /\ settled = "none"
        /\ clock = 1
        /\ played = <<>>
        /\ ev = "init"
        /\ session = 0
        /\ posts = 0
        /\ retired = [scored |-> 0, unscored |-> 0]
        /\ visited = <<>>
        /\ steps = 0

\* lines 317-329 of a frame callback, on the session as it stands
collisionCheck ==
    LET res == CollisionPass(gameState)
    IN  /\ ev = "init"
        /\ ev' = "check"
        /\ steps' = steps + 1
        /\ gameState' = res.state
        /\ pendingSounds' = res.cues
        /\ visited' = SubSeq(Xs(gameState.pipes), 1, res.seen)
        /\ IF res.over
           THEN finalScore' = res.state.score /\ isGameOver' = TRUE
           ELSE UNCHANGED <<finalScore, isGameOver>>
        /\ IF res.over
           THEN fetches' = fetches + 1 /\ issued' = <<"GET">>
           ELSE fetches' = fetches /\ issued' = <<>>
        /\ logged' = <<>>
        /\ settled' = "none"
        /\ UNCHANGED <<lastFrameTime, lastJumpTime, assetsLoaded, loadingError,
                       isGameStarted, hasSubmitted, leaderboard, clock, played,
                       session, posts, retired, mounted, frameRequests, isSubmitting,
                       submission, serverVars>>

SpecOracle == OracleInit /\ [][collisionCheck]_vars

\* ------------------------------------------------------------------------
\* The backend (src/unnamed/part_001): POST /api/scores, GET /api/leaderboard
\*
\* Each handler is a function of the request and the scores table.
\* SpecServer applies one handler once to a request drawn from the values
\* below and a table drawn from Tables.  A JSON value is a record of its
\* typeof, its characters when a string, its value when a number; a string
\* is the sequence of its characters; a number is kept in halves, so that
\* 1.5 is a value.
\* ------------------------------------------------------------------------

\* a JSON number n is kept as n * Halves
Halves == 2

\* a value of a JSON body: undefined when the key is missing, a string by
\* its characters, a number in halves
Undefined == [type |-> "undefined", chars |-> <<>>, num |-> 0]

Str(chars) == [type |-> "string", chars |-> chars, num |-> 0]

Num(halves) == [type |-> "number", chars |-> <<>>, num |-> halves]

\* n times the character c
Repeat(c, n) == [i \in 1 .. n |-> c]

\* white space as String.prototype.trim sees it
IsSpace(c) == c \in {" ", "\t"}

RECURSIVE TrimStart(_)
TrimStart(s) == IF s # <<>> /\ IsSpace(Head(s)) THEN TrimStart(Tail(s)) ELSE s

RECURSIVE TrimEnd(_)
TrimEnd(s) ==
    IF s # <<>> /\ IsSpace(s[Len(s)]) THEN TrimEnd(SubSeq(s, 1, Len(s) - 1)) ELSE s

\* s.trim()
trim(s) == TrimEnd(TrimStart(s))

\* s.slice(0, n)
slice(s, n) == SubSeq(s, 1, Min(Len(s), n))

\* 'Anonymous'
Anonymous == <<"A", "n", "o", "n", "y", "m", "o", "u", "s">>

\* the length player_name is cut to (line 378)
NameLimit == 20

\* the rows the leaderboard is cut to (line 422)
LeaderboardLimit == 10

\* typeof player_name === 'string' && player_name.trim()
\*     ? player_name.trim().slice(0, 20) : 'Anonymous'
GuestName(player_name) ==
    IF player_name.type = "string" /\ trim(player_name.chars) # <<>>
    THEN slice(trim(player_name.chars), NameLimit)
    ELSE Anonymous

\* InvalidScore letting negative numbers through
InvalidScoreLax(score) == score.type # "number"

\* typeof score !== 'number' || score < 0
InvalidScore(score) == score.type # "number" \/ score.num < 0

\* InsertData taking the name from the body whoever sends it
InsertDataFromBody(req) ==
    [player_name |-> GuestName(req.player_name),
     score |-> req.score.num \div Halves, user_id |-> 0]

\* insertData (lines 369-380): optionalAuth sets req.user when jwt.verify
\* accepts the bearer token; user_id 0 stands for the column left NULL
InsertData(req) ==
    IF req.token.kind = "valid"
    THEN [player_name |-> req.token.username,
          score |-> req.score.num \div Halves, user_id |-> req.token.id]
    ELSE [player_name |-> GuestName(req.player_name),
          score |-> req.score.num \div Halves, user_id |-> 0]

\* .select('player_name, score, created_at')
Columns(row) ==
    [player_name |-> row.player_name, score |-> row.score,
     created_at |-> row.created_at]

\* Best taking the rows of the lowest score first
Worst(rows) == {r \in rows : \A q \in rows : r.score <= q.score}

\* .order('score', { ascending: false }): the rows that may come first
Best(rows) == {r \in rows : \A q \in rows : r.score >= q.score}

\* the answers of ORDER BY score DESC LIMIT n over rows: the order among
\* rows of equal score is the database's choice
RECURSIVE Ranked(_, _)
Ranked(rows, n) ==
    IF n = 0 \/ rows = {} THEN {<<>>}
    ELSE UNION {{<<Columns(r)>> \o rest : rest \in Ranked(rows \ {r}, n - 1)} :
                   r \in Best(rows)}

\* the handlers leave the frontend alone, and one request takes a millisecond
ServerFrame(name) ==
    /\ ev' = name
    /\ steps' = steps + 1
    /\ clock' = clock + 1
    /\ UNCHANGED <<gameState, lastFrameTime, lastJumpTime, pendingSounds,
                   assetsLoaded, loadingError, isGameOver, isGameStarted,
                   finalScore, hasSubmitted, leaderboard, mounted, frameRequests,
                   netVars, issued, logged, settled, played, session, posts, retired,
                   visited>>

\* player_name of the body: missing, not a string, empty, blank, short, with
\* white space around and inside, of 20 and of 21 characters, of 20 between
\* blanks, and of 21 with a blank as the 20th
PlayerNames ==
    {Undefined, Num(10), Str(<<>>), Str(<<" ", "\t">>), Str(<<"a", "b">>),
     Str(<<" ", "a", " ", "b", "\t">>), Str(Repeat("x", 20)), Str(Repeat("x", 21)),
     Str(<<" ">> \o Repeat("x", 20) \o <<" ">>),
     Str(Repeat("x", 19) \o <<" ", "y">>)}

\* requests to POST /api/scores. Bearer token: none, one that verifies, one
\* that does not. score of the body: missing, a string, -1, -0.5, 0, 1.5, 7
Requests ==
    [route : {"POST /api/scores"},
     token : {[kind |-> k, id |-> 5, username |-> <<"b", "o", "b">>] :
                 k \in {"none", "valid", "invalid"}},
     player_name : PlayerNames,
     score : {Undefined, Str(<<"7">>), Num(-2), Num(-1), Num(0), Num(3), Num(14)}]

\* tables: empty, three rows, ten and twelve rows with equal scores among
\* them (of the twelve, two rows of score 1 compete for the tenth place); the
\* ids of the rows are their positions and the timestamps follow them
Tables ==
    LET Row(i, score) ==
            [id |-> i, player_name |-> <<"p">>, score |-> score, user_id |-> 0,
             created_at |-> i]
    IN  {<<>>, <<Row(1, 4), Row(2, 9), Row(3, 4)>>,
         [i \in 1 .. 10 |-> Row(i, (3 * i) % 7)],
         [i \in 1 .. 12 |-> Row(i, (3 * i) % 7)]}

ServerInit ==
    /\ scores \in Tables
    /\ request = NoRequest
    /\ reply = NoReply
    /\ gameState = FreshGameState(FALSE)
    /\ lastFrameTime = 0
    /\ lastJumpTime = 0
    /\ pendingSounds = <<>>
    /\ assetsLoaded = FALSE
    /\ loadingError = FALSE
    /\ isGameOver = FALSE
    /\ isGameStarted = FALSE
    /\ finalScore = 0
    /\ hasSubmitted = FALSE
    /\ leaderboard = <<>>
    /\ isSubmitting = FALSE
    /\ mounted = TRUE
    /\ frameRequests = 0
    /\ submission = "idle"
    /\ fetches = 0
    /\ issued = <<>>
    /\ logged = <<>>
    /\ settled = "none"
    /\ clock = 100
    /\ played = <<>>
    /\ ev = "init"
    /\ session = 0
    /\ posts = 0
    /\ retired = [scored |-> 0, unscored |-> 0]
    /\ visited = <<>>
    /\ steps = 0

\* app.post('/api/scores', optionalAuth, ...), lines 361-398; db is how the
\* insert ends for a row the table can hold (score is an INT column of
\* supabase/create_scores_table.sql). The table gives the row its id, here
\* its position, and created_at, now()
postScores ==
    \E req \in Requests, db \in {"ok", "error"} :
        /\ ev = "init"
        /\ ServerFrame("post")
        /\ request' = req
        /\ IF InvalidScore(req.score)
           THEN /\ reply' = [status |-> 400, error |-> "Invalid score",
                             rows |-> <<>>]
                /\ UNCHANGED scores
           ELSE IF db = "error" \/ req.score.num % Halves # 0
           THEN /\ reply' = [status |-> 500, error |-> "Failed to save score",
                             rows |-> <<>>]
                /\ UNCHANGED scores
           ELSE LET data == InsertData(req)
                    row == [id |-> Len(scores) + 1,
                            player_name |-> data.player_name,
                            score |-> data.score, user_id |-> data.user_id,
                            created_at |-> clock + 1]
                IN  /\ scores' = Append(scores, row)
                    /\ reply' = [status |-> 200, error |-> "", rows |-> <<row>>]

\* app.get('/api/leaderboard', ...), lines 416-434
getLeaderboard ==
    \E db \in {"ok", "error"} :
        /\ ev = "init"
        /\ ServerFrame("get")
        /\ request' = [route |-> "GET /api/leaderboard"]
        /\ UNCHANGED scores
        /\ IF db = "error"
           THEN reply' = [status |-> 500, error |-> "Failed to fetch leaderboard",
                          rows |-> <<>>]
           ELSE \E rows \in Ranked(Range(scores), LeaderboardLimit) :
                    reply' = [status |-> 200, error |-> "", rows |-> rows]

SpecServer == ServerInit /\ [][postScores \/ getLeaderboard]_vars

\* ------------------------------------------------------------------------
\* Properties
\* ------------------------------------------------------------------------

Inputs == {"click", "touch", "space"}

PhaseRank(state) ==
    CASE Phase(state) = "NotStarted" -> 0
      [] Phase(state) = "Running" -> 1
      [] Phase(state) = "Over" -> 2

\* C1: within one session the phase only moves forward, NotStarted ->
\* Running -> Over: no input (click, touch, Space) and no frame callback
\* lowers it, and a step that takes the program out of Over is a restart,
\* which installs a new session.
C1_PhaseForward ==
    [][/\ ev' \in Inputs \cup {"frame", "loaded", "failed"}
          => PhaseRank(gameState') >= PhaseRank(gameState)
       /\ session' = session
          => PhaseRank(gameState') >= PhaseRank(gameState)
       /\ (Phase(gameState) = "Over" /\ Phase(gameState') # "Over")
          => ev' = "restart" /\ session' = session + 1]_vars

\* a run has ended in this exploration, an input has been handled after
\* that, and the session is still over
C1_Witness ==
    /\ Phase(gameState) = "Over"
    /\ ev \in Inputs
    /\ steps >= 2
    /\ session = 0
    /\ clock < OverSeven.clock

\* C2: within one session the score never decreases: it changes only in a
\* frame callback of a Running session, and then it grows; only restart
\* sets it back to 0.
C2_ScoreMonotone ==
    [][/\ ev' # "restart" => gameState'.score >= gameState.score
       /\ gameState'.score # gameState.score
          => \/ ev' = "restart" /\ gameState'.score = 0
             \/ /\ ev' = "frame"
                /\ Phase(gameState) = "Running"
                /\ gameState'.score > gameState.score]_vars

\* a frame of this exploration has scored
C2_Witness ==
    /\ ev = "frame"
    /\ steps > 0
    /\ "point" \in Range(pendingSounds)
    /\ gameState.score > 0

ScoredLive(state) == Cardinality({i \in DOMAIN state.pipes : state.pipes[i].scored})

\* C3: scoring is idempotent per obstacle: the score equals the number of
\* obstacles of the session that have been flagged as passed, on screen or
\* retired; a flagged obstacle has its trailing edge (x + 52) left of the
\* body's anchor (x = 50); and running the scoring loop once more on the
\* obstacles as they stand changes neither a flag nor the score.
C3_ScoreCountsPassed ==
    /\ gameState.score = ScoredLive(gameState) + retired.scored
    /\ \A i \in DOMAIN gameState.pipes :
          gameState.pipes[i].scored => gameState.pipes[i].x + 52 * 25000 < 50 * 25000
    /\ LET again == CheckPipes(gameState.pipes, 1, gameState.score, gameState.bird)
       IN  again.pipes = gameState.pipes /\ again.score = gameState.score

\* an obstacle scored in this exploration is still on screen, after a
\* further frame has run the scoring loop over it again
C3_Witness ==
    /\ ev = "frame"
    /\ steps >= 3
    /\ gameState.score = 1
    /\ ScoredLive(gameState) = 1
    /\ pendingSounds = <<>>
    /\ Phase(gameState) = "Running"
    /\ retired.scored = 0

Max(a, b) == IF a > b THEN a ELSE b

\* length of the overlap of the intervals [a1, a2] and [b1, b2]: negative
\* when they are apart, 0 when they touch
OverlapLen(a1, a2, b1, b2) == Min(a2, b2) - Max(a1, b1)

\* the body (x in [50, 84], y in [by, by + 24]) against an obstacle's column
OverlapX(pipe) == OverlapLen(50 * 25000, 84 * 25000, pipe.x, pipe.x + 52 * 25000)

OverlapYTop(by, pipe) == OverlapLen(by, by + 24 * 25000, 0, pipe.topHeight)

OverlapYBottom(by, pipe) ==
    OverlapLen(by, by + 24 * 25000, pipe.topHeight + 150 * 25000, 512 * 25000)

\* C4: the collision test is strict on all four sides.  For a body inside
\* the world bounds the pass reports a collision exactly when the body's
\* rectangle and one of the obstacle's two segments overlap by a positive
\* length on both axes: rectangles that touch along an edge (overlap 0 on an
\* axis) do not collide, rectangles one unit into each other on both axes do.
C4_StrictOverlap ==
    (ev = "check" /\ gameState.bird.y >= 0 /\ gameState.bird.y <= 512 * 25000)
    => (gameState.gameOver <=>
          \E i \in DOMAIN gameState.pipes :
              /\ OverlapX(gameState.pipes[i]) > 0
              /\ \/ OverlapYTop(gameState.bird.y, gameState.pipes[i]) > 0
                 \/ OverlapYBottom(gameState.bird.y, gameState.pipes[i]) > 0)

\* the pass has run on a body level with the upper segment whose right edge
\* (x = 84) is the obstacle's left edge, and found no collision
C4_Witness ==
    /\ ev = "check"
    /\ gameState.pipes # <<>>
    /\ OverlapX(gameState.pipes[1]) = 0
    /\ OverlapYTop(gameState.bird.y, gameState.pipes[1]) > 0
    /\ ~gameState.gameOver

\* C5: ground-out.  A collision pass that finds the body at y = 513, or
\* anywhere outside [0, 512], ends the run whatever the obstacles are (none,
\* or one that does not overlap the body); y = 0 and y = 512 exactly are
\* inside: with no obstacle in the body's column the run goes on.
C5_GroundOut ==
    ev = "check" =>
        /\ (gameState.bird.y > 512 * 25000 \/ gameState.bird.y < 0)
           => Phase(gameState) = "Over"
        /\ (/\ gameState.bird.y \in {0, 512 * 25000}
            /\ \A i \in DOMAIN gameState.pipes : OverlapX(gameState.pipes[i]) <= 0)
           => Phase(gameState) = "Running"

\* the pass has run on a body at y = 513 and an obstacle well clear of it
C5_Witness ==
    /\ ev = "check"
    /\ gameState.bird.y = 513 * 25000
    /\ gameState.pipes # <<>>
    /\ OverlapX(gameState.pipes[1]) < 0
    /\ Phase(gameState) = "Over"
    /\ isGameOver

\* C6: impulse cooldown.  A click, touch or Space in a Running session is
\* accepted (it sets the velocity and becomes the last accepted impulse) if
\* and only if at least 200 ms of wall-clock time have passed since the last
\* accepted impulse, 200 ms exactly included, whatever frames ran in
\* between; a request that comes earlier leaves session and timestamp alone.
C6_Cooldown ==
    [][(ev' \in Inputs /\ Phase(gameState) = "Running")
       => IF (1000000 + clock') - lastJumpTime >= 200
          THEN /\ lastJumpTime' = 1000000 + clock'
               /\ gameState'.bird.velocity = -3750
          ELSE UNCHANGED <<gameState, lastJumpTime>>]_vars

\* a request 50 ms after an accepted impulse of this exploration has been
\* dropped: the velocity is not the impulse's
C6_Witness ==
    /\ ev \in Inputs
    /\ Phase(gameState) = "Running"
    /\ steps >= 3
    /\ (1000000 + clock) - lastJumpTime = 50
    /\ gameState.bird.velocity # -3750

\* C7: an accepted impulse in a Running session sets the velocity to -7.5
\* (3750 units of 1/500) whatever it was and changes nothing else of the
\* session: position, animation frame, obstacles, score, phase and frame
\* counter stay as they were.
C7_ImpulseReplaces ==
    [][(ev' \in Inputs /\ Phase(gameState) = "Running" /\ lastJumpTime' # lastJumpTime)
       => gameState' = [gameState EXCEPT !.bird.velocity = -3750]]_vars

\* an impulse has just been accepted while the body was falling with
\* obstacles on screen
C7_Witness ==
    /\ ev \in Inputs
    /\ Phase(gameState) = "Running"
    /\ lastJumpTime = 1000000 + clock
    /\ gameState.bird.velocity = -3750
    /\ gameState.frameCount > 0
    /\ gameState.pipes # <<>>
    /\ steps >= 2

\* C8: a click, touch or Space received while the phase is NotStarted moves
\* the session to Running and leaves the body alone: the run starts with
\* the body at y = 200 and velocity 0.
C8_StartKeepsBody ==
    [][(ev' \in Inputs /\ Phase(gameState) = "NotStarted")
       => /\ Phase(gameState') = "Running"
          /\ gameState'.bird = gameState.bird
          /\ gameState'.bird.y = 200 * 25000
          /\ gameState'.bird.velocity = 0
          /\ isGameStarted']_vars

\* a click has just started the run
C8_Witness ==
    /\ ev = "click"
    /\ session = 0
    /\ Phase(gameState) = "Running"
    /\ gameState.frameCount = 0
    /\ lastJumpTime = 1000000 + clock

\* C9: an impulse received while the phase is Over is a no-op on every
\* input path (click, touch, Space): the session, the game-over flag and the
\* final score stay as they are, and no new session is installed.
C9_OverIgnoresInput ==
    [][(ev' \in Inputs /\ Phase(gameState) = "Over")
       => UNCHANGED <<gameState, isGameOver, isGameStarted, finalScore, session,
                      lastJumpTime, lastFrameTime, pendingSounds>>]_vars

\* Space has been pressed on the game-over screen of a run that ended in
\* this exploration
C9_Witness ==
    /\ ev = "space"
    /\ Phase(gameState) = "Over"
    /\ session = 0
    /\ clock < OverSeven.clock
    /\ isGameOver

\* C10: restart, offered once the run is over, installs a fresh session in
\* one step: score 0, no obstacles, phase Running, frame counter 0, the body
\* at y = 200 with velocity 0 and animation frame 0; and the same step
\* clears the game-over flag and the final score.
C10_RestartFresh ==
    [][ev' = "restart"
       => /\ Phase(gameState) = "Over"
          /\ gameState' = [bird |-> [y |-> 200 * 25000, velocity |-> 0, frame |-> 0],
                           pipes |-> <<>>, score |-> 0, gameOver |-> FALSE,
                           gameStarted |-> TRUE, frameCount |-> 0]
          /\ ~isGameOver'
          /\ finalScore' = 0
          /\ isGameStarted']_vars

\* the run that ended with score 7 and an obstacle on screen has been restarted
C10_Witness ==
    /\ ev = "restart"
    /\ clock > OverSeven.clock
    /\ session = 1
    /\ gameState.score = 0
    /\ gameState.pipes = <<>>
    /\ Phase(gameState) = "Running"
    /\ finalScore = 0

\* the frame callback about to run (ev' = "frame") finds a Running session
RunningFrame == ev' = "frame" /\ Phase(gameState) = "Running"

\* the obstacles of a sequence, each moved left by dx position units
Shifted(pipes, dx) == [i \in 1..Len(pipes) |-> [pipes[i] EXCEPT !.x = @ - dx]]

\* C11: the step multiplier of a frame callback is the milliseconds since
\* the previous callback divided by 1000/60 and clamped to 1 (3 fiftieths
\* per millisecond, at most 50), so it lies in [0, 1]; after a pause of ten
\* seconds the body and the obstacles advance by one unit step, not 600.
\* Stated on what the step does: velocity grows by 0.3 * step, y by
\* velocity * step, and every obstacle kept by the frame has moved left by
\* 2 * step.  (The frame that follows a start or restart has no previous
\* callback on record; that frame is C12's.)
C11_StepClamped ==
    [][(RunningFrame /\ lastFrameTime # 0)
       => LET elapsed == clock' - lastFrameTime
              step == IF 3 * elapsed > 50 THEN 50 ELSE 3 * elapsed
              old == Shifted(gameState.pipes, 1000 * step)
          IN  /\ step \in 0..50
              /\ elapsed = 10000 => step = 50
              /\ gameState'.bird.velocity = gameState.bird.velocity + 3 * step
              /\ gameState'.bird.y = gameState.bird.y + gameState'.bird.velocity * step
              /\ \A i \in 1..Len(old) :
                    old[i].x + 52 * 25000 > 0
                    => \E j \in 1..Len(gameState'.pipes) :
                          /\ gameState'.pipes[j].x = old[i].x
                          /\ gameState'.pipes[j].topHeight = old[i].topHeight]_vars

\* the frame that ended a ten-second pause of the run PreScore has moved the
\* body by one step of gravity and the two obstacles by 2 pixels
C11_Witness ==
    /\ ev = "frame"
    /\ steps = 1
    /\ clock = PreScore.clock + 10000
    /\ gameState.bird.velocity = PreScore.gameState.bird.velocity + 150
    /\ gameState.bird.y = PreScore.gameState.bird.y + 50 * gameState.bird.velocity
    /\ gameState.pipes[1].x = PreScore.gameState.pipes[1].x - 50000
    /\ gameState.pipes[2].x = PreScore.gameState.pipes[2].x - 50000

\* C12: the first frame callback of a run (the frame counter is still 0:
\* the session was started by a click, touch or Space, or installed by a
\* restart, and no frame has run on it) has step 0, however long the loop
\* idled before: the body's y and velocity are what they were, and the
\* obstacle the frame spawns stands at x = 288, not advanced.
C12_FirstFrameStill ==
    [][(RunningFrame /\ gameState.frameCount = 0)
       => /\ gameState'.bird.y = gameState.bird.y
          /\ gameState'.bird.velocity = gameState.bird.velocity
          /\ gameState.pipes = <<>>
          /\ Len(gameState'.pipes) = 1
          /\ gameState'.pipes[1].x = 288 * 25000
          /\ gameState'.frameCount = 1]_vars

\* the first frame after a restart, the restart ten seconds or more after
\* the run with score 7 had ended
C12_Witness ==
    /\ ev = "frame"
    /\ session = 1
    /\ gameState.frameCount = 1
    /\ clock >= OverSeven.clock + 10000
    /\ gameState.bird.y = 200 * 25000
    /\ gameState.bird.velocity = 0
    /\ Phase(gameState) = "Running"

\* obstacle i of the sequence before the frame is obstacle j after it, has
\* its gap at 200, and its trailing edge x + 52 went from 50 or more to less
\* than 50 in the frame
Crossed(i, j) ==
    LET before == gameState.pipes[i]
        after == gameState'.pipes[j]
    IN  /\ before.topHeight = 200 * 25000
        /\ after.topHeight = 200 * 25000
        /\ after.x <= before.x
        /\ after.x >= before.x - 2 * 25000
        /\ before.x + 52 * 25000 >= 50 * 25000
        /\ after.x + 52 * 25000 < 50 * 25000

\* C13: pass-through.  In the Running frame in which the trailing edge of
\* an obstacle with gap top 200 (gap 200..350) crosses x = 50 while the
\* body's y is inside [200, 350], the score goes up by exactly 1, the
\* obstacle is flagged passed, and no collision is registered: the run is
\* not over and no hit cue is queued.
C13_PassThrough ==
    [][(RunningFrame
        /\ gameState'.bird.y >= 200 * 25000
        /\ gameState'.bird.y <= 350 * 25000)
       => \A i \in 1..Len(gameState.pipes), j \in 1..Len(gameState'.pipes) :
             Crossed(i, j)
             => /\ gameState'.pipes[j].scored
                /\ gameState'.score = gameState.score + 1
                /\ ~gameState'.gameOver
                /\ ~isGameOver'
                /\ pendingSounds' = <<"point">>]_vars

\* the first obstacle of the run PreScore (gap top 200) has just been
\* passed with the body inside the gap: first point of the run
C13_Witness ==
    /\ ev = "frame"
    /\ session = 0
    /\ Phase(gameState) = "Running"
    /\ gameState.score = 1
    /\ gameState.frameCount > PreScore.gameState.frameCount
    /\ gameState.frameCount < PreRetire.gameState.frameCount
    /\ gameState.pipes[1].scored
    /\ gameState.pipes[1].topHeight = 200 * 25000
    /\ gameState.pipes[1].x + 52 * 25000 >= 48 * 25000
    /\ gameState.bird.y >= 200 * 25000
    /\ gameState.bird.y <= 350 * 25000
    /\ pendingSounds = <<"point">>

\* the body of a session overlaps segment(s) of obstacle i
Overlaps(state, i) ==
    /\ OverlapX(state.pipes[i]) > 0
    /\ \/ OverlapYTop(state.bird.y, state.pipes[i]) > 0
       \/ OverlapYBottom(state.bird.y, state.pipes[i]) > 0

\* the body of a session is outside [0, 512]
Outside(state) == state.bird.y < 0 \/ state.bird.y > 512 * 25000

C15_IdleFrameFrozen ==
    [][(ev' = "frame" /\ Phase(gameState) \in {"NotStarted", "Over"})
       => /\ gameState'.bird = gameState.bird
          /\ gameState'.pipes = gameState.pipes
          /\ gameState'.score = gameState.score
          /\ gameState'.frameCount = gameState.frameCount
          /\ gameState' = gameState]_vars

\* a frame callback has run on a finished run (it dispatched the hit cue
\* of the frame before it) whose body was moving and whose obstacles were
\* on screen
C15_Witness ==
    /\ ev = "frame"
    /\ Phase(gameState) = "Over"
    /\ played = <<"hit">>
    /\ pendingSounds = <<>>
    /\ gameState.pipes # <<>>
    /\ gameState.bird.velocity # 0
    /\ steps >= 2

\* the frame has appended an obstacle: the last one stands at x = 288
Spawned ==
    /\ gameState'.pipes # <<>>
    /\ gameState'.pipes[Len(gameState'.pipes)].x = 288 * 25000

\* the sequence the frame's spawn test looked at: the obstacles after the
\* frame, the appended one aside
Kept ==
    IF Spawned
    THEN SubSeq(gameState'.pipes, 1, Len(gameState'.pipes) - 1)
    ELSE gameState'.pipes

\* C16: spawn rule.  A Running frame appends an obstacle if and only if the
\* sequence (moved and cleared by that frame) is empty or its last
\* obstacle's x is less than 88; the new obstacle has x = 288, passed =
\* false and a gapTopHeight in [50, 312], so that 0 < gapTopHeight < 362 and
\* both segments (heights gapTopHeight and 512 - gapTopHeight - 150) are
\* not negative.  gapTopHeight never changes: whatever the step, short of a
\* restart, the obstacles after it (a new one aside) carry, in order, the
\* gapTopHeights of the obstacles that were there before it, less the ones
\* retired at the front.
C16_SpawnRule ==
    [][/\ RunningFrame
          => /\ Spawned <=> (Kept = <<>> \/ Kept[Len(Kept)].x < 88 * 25000)
             /\ Spawned
                => LET new == gameState'.pipes[Len(gameState'.pipes)]
                   IN  /\ ~new.scored
                       /\ new.topHeight >= 50 * 25000
                       /\ new.topHeight <= 312 * 25000
                       /\ new.topHeight > 0
                       /\ new.topHeight < 362 * 25000
                       /\ 512 * 25000 - new.topHeight - 150 * 25000 >= 0
             /\ \E k \in 0..Len(gameState.pipes) :
                   /\ Len(Kept) = Len(gameState.pipes) - k
                   /\ \A j \in 1..Len(Kept) :
                         Kept[j].topHeight = gameState.pipes[j + k].topHeight
       /\ (~RunningFrame /\ ev' # "restart") => gameState'.pipes = gameState.pipes]_vars

\* a frame of this exploration found the last obstacle left of 88 and
\* appended the second obstacle, its gap as low as the draw allows
C16_Witness ==
    /\ ev = "frame"
    /\ steps > 0
    /\ Len(gameState.pipes) = 2
    /\ gameState.pipes[1].x < 88 * 25000
    /\ gameState.pipes[1].x >= 86 * 25000
    /\ gameState.pipes[2].x = 288 * 25000
    /\ gameState.pipes[2].topHeight = 312 * 25000 - 1
    /\ ~gameState.pipes[2].scored

\* C17: while the phase is Running every live obstacle's x strictly
\* decreases from frame to frame.  Each Running frame moves every obstacle
\* that was in the sequence left by 2 * step (step the frame's multiplier,
\* 3 fiftieths per elapsed millisecond, at most 50 fiftieths): the
\* obstacles it keeps are, in order, the ones that were there less the ones
\* retired at the front, each at a smaller x, smaller by exactly 2 * step.
C17_ObstaclesMoveLeft ==
    [][RunningFrame
       => LET elapsed == IF lastFrameTime = 0 THEN 0 ELSE clock' - lastFrameTime
              step == IF 3 * elapsed > 50 THEN 50 ELSE 3 * elapsed
          IN  \E k \in 0..Len(gameState.pipes) :
                 /\ Len(Kept) = Len(gameState.pipes) - k
                 /\ \A j \in 1..Len(Kept) :
                       /\ Kept[j].x < gameState.pipes[j + k].x
                       /\ Kept[j].x = gameState.pipes[j + k].x - 2 * step * 500]_vars

\* a frame 10 ms after the last one of the run PreScore (step 0.6) has moved
\* both obstacles left by 1.2
C17_Witness ==
    /\ ev = "frame"
    /\ steps = 1
    /\ Phase(gameState) = "Running"
    /\ clock = PreScore.clock + 10
    /\ Len(gameState.pipes) = 2
    /\ gameState.pipes[1].x = PreScore.gameState.pipes[1].x - 30000
    /\ gameState.pipes[2].x = PreScore.gameState.pipes[2].x - 30000

\* an obstacle's trailing edge is still on screen
Alive(pipe) == pipe.x + 52 * 25000 > 0

\* where the obstacles of a sequence are: x and gap, the flags aside
Places(pipes) ==
    [i \in 1..Len(pipes) |-> [x |-> pipes[i].x, topHeight |-> pipes[i].topHeight]]

\* C18: retirement.  A Running frame removes exactly the obstacles whose
\* trailing edge x + 52 is at or left of 0 after the frame's advance, be
\* it none, one or several of them, and the survivors keep their order:
\* the sequence the frame keeps is the advanced sequence with those
\* obstacles struck out.  In every state the sequence is sorted by x,
\* leftmost first, which is the order of insertion.
C18_Retirement ==
    [][/\ RunningFrame
          => LET elapsed == IF lastFrameTime = 0 THEN 0 ELSE clock' - lastFrameTime
                 step == IF 3 * elapsed > 50 THEN 50 ELSE 3 * elapsed
                 advanced == Shifted(gameState.pipes, 1000 * step)
             IN  /\ Places(Kept) = Places(SelectSeq(advanced, Alive))
                 /\ \A j \in DOMAIN Kept : Kept[j].x + 52 * 25000 > 0
       /\ \A i, j \in DOMAIN gameState'.pipes :
             i < j => gameState'.pipes[i].x < gameState'.pipes[j].x]_vars

\* a frame has removed two obstacles at once, kept the third, one unit
\* short of the edge, and appended a new one behind it
C18_Witness ==
    /\ ev = "frame"
    /\ retired.scored = 2
    /\ clock = 5200
    /\ Len(gameState.pipes) = 2
    /\ gameState.pipes[1].x = Px(-49) - Px(2)
    /\ gameState.pipes[2].x = Px(288)
    /\ Phase(gameState) = "Running"

\* the obstacles as the frame about to run moves them, before it removes any
Advanced ==
    LET elapsed == IF lastFrameTime = 0 THEN 0 ELSE clock' - lastFrameTime
        step == IF 3 * elapsed > 50 THEN 50 ELSE 3 * elapsed
    IN  Shifted(gameState.pipes, 1000 * step)

\* obstacle i of the sequence before the frame is gone after it
Removed(i) == Advanced[i].x \notin Range(Xs(gameState'.pipes))

\* C19 as stated: within a Running frame an obstacle goes through the
\* frame's scoring and collision check before it is retired: every obstacle
\* the frame removes is among the obstacles its check loop went over.
C19_CheckedBeforeRetired ==
    [][RunningFrame
       => \A i \in DOMAIN gameState.pipes :
             Removed(i) => Advanced[i].x \in Range(visited')]_vars

\* C19, amended: within a Running frame retirement comes first and the
\* scoring and collision checks run on the obstacles that are left, so an
\* obstacle removed in a frame is not looked at in that frame.  Nothing is
\* lost by it: an obstacle that is removed was flagged passed in an earlier
\* frame and its trailing edge is at or left of 0, left of the body; and
\* the check loop goes over the kept sequence from its first obstacle on,
\* over all of it unless the run ends in that frame.
C19_RetiredAlreadyChecked ==
    [][RunningFrame
       => /\ \A i \in DOMAIN gameState.pipes :
                Removed(i)
                => /\ Advanced[i].x \notin Range(visited')
                   /\ gameState.pipes[i].scored
                   /\ Advanced[i].x + 52 * 25000 <= 0
          /\ Len(visited') <= Len(gameState'.pipes)
          /\ visited' = SubSeq(Xs(gameState'.pipes), 1, Len(visited'))
          /\ ~gameState'.gameOver => visited' = Xs(gameState'.pipes)
          /\ retired'.unscored = 0]_vars

\* a frame of the run PreRetire has removed the obstacle passed earlier and
\* has run its checks on the one that is left
C19_Witness ==
    /\ ev = "frame"
    /\ steps > 0
    /\ clock > PreRetire.clock
    /\ clock < OverSeven.clock
    /\ retired.scored = 1
    /\ gameState.score = 1
    /\ visited # <<>>
    /\ visited = Xs(gameState.pipes)
    /\ \A i \in DOMAIN gameState.pipes : ~gameState.pipes[i].scored

\* a sequence names no cue twice
Once(cues) == Cardinality(Range(cues)) = Len(cues)

\* C20: the pending-sound mailbox.  A frame callback begins by dispatching
\* what is in the queue, each cue once, and empties it: what the queue holds
\* after the callback is what that callback itself queued (point if it
\* scored, hit if it ended the run, nothing when the phase is not Running).
\* No other handler touches the queue or dispatches a queued cue, so a cue
\* queued during frame N is dispatched at the start of frame N + 1 and not
\* later.  Draining an empty queue dispatches nothing.  A cue queued more
\* than once before a drain is in the queue once and is dispatched once.
C20_SoundMailbox ==
    [][/\ ev' = "frame"
          => /\ played' = pendingSounds
             /\ Once(played')
             /\ pendingSounds = <<>> => played' = <<>>
             /\ Phase(gameState) # "Running" => pendingSounds' = <<>>
             /\ Phase(gameState) = "Running"
                => /\ "point" \in Range(pendingSounds') <=> gameState'.score > gameState.score
                   /\ "hit" \in Range(pendingSounds') <=> gameState'.gameOver
                   /\ Range(pendingSounds') \subseteq {"point", "hit"}
       /\ ev' # "frame"
          => /\ pendingSounds' = pendingSounds
             /\ Range(played') \subseteq {"wing"}
       /\ Once(pendingSounds')]_vars

\* the frame after the one that took the body above the top and into an
\* obstacle at once (the hit cue queued for the obstacle and again for the
\* bounds) has dispatched the hit cue once and left the queue empty
C20_Witness ==
    /\ ev = "frame"
    /\ Phase(gameState) = "Over"
    /\ Outside(gameState)
    /\ Overlaps(gameState, 1)
    /\ played = <<"hit">>
    /\ pendingSounds = <<>>
    /\ steps >= 2

\* C21 as stated: all three cues go through the queue, so a cue is played
\* only by the flush that opens a frame callback, never by the handler of
\* the event that causes it.
C21_AllCuesQueued == played # <<>> => ev = "frame"

\* C21: point and hit go through the pending-sound queue: the frame that
\* scores or ends the run queues them and plays nothing of its own, and they
\* are played by the flush that opens the next frame callback.  wing does
\* not: jump plays it at once, in the input handler of the accepted impulse,
\* and it is never in the queue.  No cue is played inside the simulation
\* step.
C21_WingPlayedAtOnce ==
    [][/\ ev' = "frame"
          => /\ played' = pendingSounds
             /\ "wing" \notin Range(played')
             /\ Range(pendingSounds') \subseteq {"point", "hit"}
       /\ ev' # "frame"
          => /\ pendingSounds' = pendingSounds
             /\ played' \in {<<>>, <<"wing">>}
       /\ played' = <<"wing">>
          <=> /\ ev' \in Inputs
              /\ Phase(gameState) = "Running"
              /\ lastJumpTime' # lastJumpTime]_vars

\* an accepted impulse has just played wing from the click handler, while
\* the point cue of the frame before is still waiting in the queue
C21_Witness ==
    /\ ev = "click"
    /\ played = <<"wing">>
    /\ pendingSounds = <<"point">>
    /\ lastJumpTime = TimeOrigin + clock

\* C22: the frame loop.  A frame callback runs only while the component is
\* on the page and is the one callback pending; whatever the phase, the
\* NotStarted early return included, it leaves exactly one callback pending
\* (its successor), so there is never more than one.  The teardown cancels
\* the pending callback: afterwards none is pending, no frame callback runs
\* and the session is not written again.
C22_LoopReschedules ==
    [][/\ frameRequests' <= 1
       /\ ev' = "frame" => mounted /\ frameRequests = 1 /\ frameRequests' = 1
       /\ ev' = "unmount" => frameRequests' = 0
       /\ ~mounted => /\ ev' # "frame"
                      /\ frameRequests' = 0
                      /\ gameState' = gameState]_vars

\* the page was torn down after a frame callback had run on the start
\* prompt (and requested its successor): nothing is pending any more
C22_Witness ==
    /\ ev = "unmount"
    /\ assetsLoaded
    /\ Phase(gameState) = "NotStarted"
    /\ lastFrameTime # 0
    /\ frameRequests = 0

\* C23 as stated: the simulation never starts without all assets.  Until
\* every asset has loaded the session stays NotStarted and no simulation
\* step has run, whatever input arrives meanwhile; once a load has failed
\* the loading error is set, the assets-ready flag is not, and no frame
\* callback is requested.
C23_NoStartWithoutAssets ==
    /\ ~assetsLoaded => /\ Phase(gameState) = "NotStarted"
                        /\ gameState.frameCount = 0
                        /\ frameRequests = 0
    /\ ev = "failed" => loadingError
    /\ loadingError => ~assetsLoaded /\ frameRequests = 0

\* C24: restart from the terminal phase.  Whenever the phase is Over (on a
\* page that is still there) the Restart button is on the screen, whether a
\* submission or a leaderboard fetch has not begun, is in flight, has failed
\* or has completed; pressing it replaces the session by a fresh Running one
\* in the same step, starts no network call and neither waits for nor
\* touches the calls in flight.
C24_RestartAlwaysOffered ==
    [][/\ (mounted' /\ Phase(gameState') = "Over") => RestartOffered'
       /\ ev' = "restart"
          => /\ Phase(gameState) = "Over"
             /\ gameState' = FreshGameState(TRUE)
             /\ Phase(gameState') = "Running"
             /\ issued' = <<>>
             /\ UNCHANGED <<submission, fetches, isSubmitting>>]_vars

\* the session was restarted while the score's POST and the game-over
\* effect's leaderboard fetch were both still in flight
C24_Witness ==
    /\ ev = "restart"
    /\ Phase(gameState) = "Running"
    /\ gameState = FreshGameState(TRUE)
    /\ submission = "posting"
    /\ fetches = 1

\* C25 as stated: a leaderboard fetch or a score submission that fails (the
\* request is rejected, or the response is not ok) is only logged: the
\* handler of the failure leaves the session and the displayed leaderboard
\* as they were, marks nothing as saved and starts nothing new.
C25_FailureOnlyLogged ==
    [][settled' \in {"status", "error"}
       => /\ gameState' = gameState
          /\ leaderboard' = leaderboard
          /\ hasSubmitted' = hasSubmitted
          /\ issued' = <<>>]_vars

\* C26 as stated: the score service is called on phase transitions only.  A
\* leaderboard fetch is started when the game-over flag turns true, once
\* each time, and after a submit; a submit is started from the game-over
\* screen only; a frame callback that does not end the run starts no call
\* and leaves the calls in flight alone; and no call is started while the
\* live session is NotStarted or Running.
C26_CallsOnTransitionsOnly ==
    [][/\ (~isGameOver /\ isGameOver') => issued' = <<"GET">>
       /\ issued' = <<"GET">> => (~isGameOver /\ isGameOver') \/ ev' = "posted"
       /\ issued' = <<"POST">> => ev' = "submit" /\ Phase(gameState) = "Over"
       /\ issued' \in {<<>>, <<"GET">>, <<"POST">>}
       /\ (ev' = "frame" /\ isGameOver' = isGameOver)
          => issued' = <<>> /\ UNCHANGED <<submission, fetches>>
       /\ issued' # <<>> => Phase(gameState') = "Over"]_vars

\* the strings s is made of with white space (blank or tab) taken off both ends
TrimmedOf(s) ==
    {SubSeq(s, i, j) : <<i, j>> \in
        {p \in (1 .. Len(s)) \X (1 .. Len(s)) :
            /\ p[1] <= p[2]
            /\ s[p[1]] \notin {" ", "\t"}
            /\ s[p[2]] \notin {" ", "\t"}
            /\ \A k \in 1 .. Len(s) : (k < p[1] \/ k > p[2]) => s[k] \in {" ", "\t"}}}

C28_TopTen ==
    [][ev' = "get"
       => /\ scores' = scores
          /\ request' = [route |-> "GET /api/leaderboard"]
          /\ reply'.status = 200
             => LET rows == reply'.rows
                    shown == {i \in DOMAIN scores :
                                 \E k \in DOMAIN rows :
                                     rows[k].created_at = scores[i].created_at}
                IN  /\ Len(rows) = Min(10, Len(scores))
                    /\ \A k \in DOMAIN rows :
                           \E i \in DOMAIN scores :
                               rows[k] = [player_name |-> scores[i].player_name,
                                          score |-> scores[i].score,
                                          created_at |-> scores[i].created_at]
                    /\ Cardinality(shown) = Len(rows)
                    /\ \A k, l \in DOMAIN rows : k < l => rows[k].score >= rows[l].score
                    /\ \A i \in shown, j \in DOMAIN scores \ shown :
                           scores[i].score >= scores[j].score]_vars

\* of twelve stored records ten were returned, the last of them one of the
\* two records of score 1, the other left out with the record of score 0
C28_Witness ==
    /\ ev = "get"
    /\ reply.status = 200
    /\ Len(scores) = 12
    /\ Len(reply.rows) = 10
    /\ reply.rows[1].score = 6
    /\ reply.rows[10].score = 1
    /\ reply.rows[10].created_at = 12

\* C29: POST /api/scores with a score that is not a number, or is a number
\* below 0, is answered 400 'Invalid score' and leaves the scores table as
\* it was; the table changes only on a request whose score is a number not
\* below 0.
C29_InvalidScoreRejected ==
    [][ev' = "post"
       => /\ (request'.score.type # "number" \/ request'.score.num < 0)
             => /\ reply'.status = 400
                /\ reply'.error = "Invalid score"
                /\ scores' = scores
          /\ reply'.status = 400
             => (request'.score.type # "number" \/ request'.score.num < 0)
          /\ scores' # scores
             => request'.score.type = "number" /\ request'.score.num >= 0]_vars

\* a score of -0.5, sent with a valid token to a table of three records, was
\* answered 400 and the table still has its three records
C29_Witness ==
    /\ ev = "post"
    /\ request.score = [type |-> "number", chars |-> <<>>, num |-> -1]
    /\ request.token.kind = "valid"
    /\ reply.status = 400
    /\ reply.error = "Invalid score"
    /\ Len(scores) = 3

\* C30 as stated: on every input path the cooldown comes before the phase,
\* so an input less than 200 ms after the last accepted impulse changes
\* nothing of the session, and the input that takes the session from
\* NotStarted to Running is recorded as an accepted impulse (the time of the
\* last accepted impulse becomes the time of that input), whereby an impulse
\* less than 200 ms after it is dropped.
C30_CooldownUniform ==
    [][ev' \in Inputs
       => LET now == TimeOrigin + clock'
          IN  /\ now - lastJumpTime < 200 => gameState' = gameState
              /\ ~gameState.gameStarted /\ gameState'.gameStarted
                 => lastJumpTime' = now]_vars

\* C30: the cooldown comes before the start of the run on the pointer paths
\* only.  A click or touch less than 200 ms after the last accepted impulse
\* changes nothing, and one that starts the run is recorded as an accepted
\* impulse, so that any input less than 200 ms after it is dropped.  A press
\* of Space tests the phase first: in NotStarted it starts the run without
\* consulting or recording the time, the body untouched; in Running it is
\* dropped less than 200 ms after the last accepted impulse and otherwise
\* sets the velocity to the upward impulse and is recorded.  No impulse has
\* been accepted before the run starts, so the first impulse after a start by
\* Space is accepted however soon it comes.
C30_CooldownByPath ==
    [][ev' \in Inputs
       => LET now == TimeOrigin + clock'
              early == now - lastJumpTime < 200
              starts == ~gameState.gameStarted /\ gameState'.gameStarted
          IN  /\ ~gameState.gameStarted => lastJumpTime = 0 /\ ~early
              /\ ev' \in {"click", "touch"}
                 => /\ early => gameState' = gameState /\ lastJumpTime' = lastJumpTime
                    /\ starts => lastJumpTime' = now
              /\ ev' = "space"
                 => /\ ~gameState.gameStarted
                       => /\ starts
                          /\ gameState'.bird = gameState.bird
                          /\ lastJumpTime' = lastJumpTime
                    /\ gameState.gameStarted /\ early
                       => gameState' = gameState /\ lastJumpTime' = lastJumpTime
                    /\ gameState.gameStarted /\ ~gameState.gameOver /\ ~early
                       => /\ gameState'.bird.velocity = -(JUMP_STRENGTH * DtScale)
                          /\ lastJumpTime' = now]_vars

\* the page was loaded 110 ms ago at most, the run was started by Space (a
\* click would have been recorded, and no later impulse accepted so soon)
\* and a press of Space has since set the velocity, before any frame
C30_Witness ==
    /\ ev = "space"
    /\ steps = 3
    /\ clock <= 111
    /\ assetsLoaded
    /\ gameState.gameStarted
    /\ lastFrameTime = 0
    /\ gameState.bird.velocity = -(JUMP_STRENGTH * DtScale)
    /\ lastJumpTime = TimeOrigin + clock

\* C31: a click, touch or Space that comes less than 200 ms after the last
\* accepted impulse is dropped without a trace: the session, the time of the
\* last accepted impulse, the time of the last frame, the queue of cues and
\* everything the page shows stay as they were, no cue is played, nothing is
\* logged and no call is started, so the state keeps nothing by which the
\* request could act later.  The time of the last accepted impulse is
\* therefore always that of an accepted one, and of requests that follow one
\* another faster than every 200 ms the first to come 200 ms or more after
\* it, in a Running session, is accepted: it sets the velocity and becomes
\* the last accepted impulse.
C31_DroppedSilently ==
    [][ev' \in Inputs
       => LET now == TimeOrigin + clock'
          IN  IF now - lastJumpTime < 200
              THEN /\ UNCHANGED <<gameState, lastJumpTime, lastFrameTime,
                                  pendingSounds, isGameStarted, isGameOver,
                                  finalScore, hasSubmitted, leaderboard,
                                  isSubmitting, loadingError, assetsLoaded,
                                  frameRequests, submission, fetches>>
                   /\ played' = <<>>
                   /\ logged' = <<>>
                   /\ issued' = <<>>
              ELSE Phase(gameState) = "Running"
                   => /\ gameState'.bird.velocity = -(JUMP_STRENGTH * DtScale)
                      /\ lastJumpTime' = now]_vars

\* five requests in a row: the first, 10 ms into the exploration, was
\* accepted, the next three came 50, 100 and 150 ms after it and were
\* dropped, and the fifth, 200 ms after the first and 50 ms after a dropped
\* one, has just been accepted
C31_Witness ==
    /\ ev \in Inputs
    /\ steps = 5
    /\ Phase(gameState) = "Running"
    /\ clock = PreScore.clock + 210
    /\ lastJumpTime = TimeOrigin + clock
    /\ gameState.bird.velocity = -(JUMP_STRENGTH * DtScale)
    /\ played = <<"wing">>

\* C32: the body's animation phase is always 0, 1 or 2 and equals
\* floor(frameCount / 5) mod 3.  A frame callback in a Running session adds
\* exactly 1 to the frame counter, also when it ends the run, and moves the
\* phase on by one, 2 going to 0, exactly when the new count is a multiple
\* of 5; a frame callback in NotStarted or Over leaves counter and phase as
\* they were, and so does every input.
C32_AnimationPhase ==
    [][LET tied(state) ==
               /\ state.bird.frame \in {0, 1, 2}
               /\ state.bird.frame = (state.frameCount \div 5) % 3
       IN  /\ tied(gameState)
           /\ tied(gameState')
           /\ (ev' = "frame" /\ Phase(gameState) = "Running")
              => /\ gameState'.frameCount = gameState.frameCount + 1
                 /\ gameState'.bird.frame
                       = IF gameState'.frameCount % 5 = 0
                         THEN (gameState.bird.frame + 1) % 3
                         ELSE gameState.bird.frame
           /\ ((ev' = "frame" /\ Phase(gameState) # "Running") \/ ev' \in Inputs)
              => /\ gameState'.frameCount = gameState.frameCount
                 /\ gameState'.bird.frame = gameState.bird.frame]_vars

\* the 30th frame of a run, entered in Running with the phase at 2, has
\* turned the phase back to 0 (and has then found the body above the top)
C32_Witness ==
    /\ ev = "frame"
    /\ gameState.frameCount = 30
    /\ gameState.bird.frame = 0
    /\ gameState.score = 0
    /\ Len(gameState.pipes) = 1

\* C33 as stated: a submission in flight at a restart does not reach the
\* next session.  Restart leaves the submitted flag false, the flag turns
\* true only in a session that is Over (the one a submission was made for),
\* never while the session that restart began is Running, and it is false
\* when that session ends, so that the overlay offers Submit Score again.
C33_NoLeakAfterRestart ==
    [][/\ ev' = "restart" => ~hasSubmitted'
       /\ (~hasSubmitted /\ hasSubmitted') => Phase(gameState) = "Over"
       /\ Phase(gameState') = "Running" => ~hasSubmitted'
       /\ (~isGameOver /\ isGameOver') => ~hasSubmitted']_vars

\* C34 as stated: for each finished session at most one POST /api/scores is
\* sent.
C34_OnePostPerSession == posts <= 1

\* C34: a POST /api/scores is sent only by Submit Score on the game-over
\* screen, and only when no submission is in progress and none has been
\* answered: the in-progress flag is true for as long as submitScore is
\* under way, the submitted flag stays true from the answer until restart,
\* and with either flag true a POST is not sent.  A session sends a further
\* POST only after the one before was rejected by the network, which clears
\* the in-progress flag and leaves the submitted flag false.
C34_OneSubmissionAtATime ==
    [][/\ submission # "idle" => isSubmitting
       /\ issued' = <<"POST">>
          => /\ ev' = "submit"
             /\ Phase(gameState) = "Over"
             /\ ~isSubmitting /\ ~hasSubmitted
             /\ submission = "idle"
             /\ posts' = posts + 1
       /\ (isSubmitting \/ hasSubmitted) /\ ev' # "restart" => posts' = posts
       /\ hasSubmitted /\ ev' # "restart" => hasSubmitted'
       /\ (ev' = "posted" /\ mounted)
          => IF settled' = "error"
             THEN ~isSubmitting' /\ hasSubmitted' = hasSubmitted
             ELSE isSubmitting' /\ hasSubmitted']_vars

\* the second POST of a session is out: the first was rejected by the network
C34_Witness ==
    /\ posts = 2
    /\ submission = "posting"
    /\ isSubmitting
    /\ ~hasSubmitted
    /\ Phase(gameState) = "Over"

\* C35 as stated: the submitted flag turns true only when the score service
\* has accepted the POST.  When the POST fails, by a rejection of the network
\* or by a response that is not ok, the page being still there, the
\* submitted flag stays as it was, the in-progress flag is false again and,
\* on the game-over screen of a score not yet submitted, Submit Score is
\* offered again.
C35_SubmittedOnlyWhenAccepted ==
    [][/\ (~hasSubmitted /\ hasSubmitted') => ev' = "posted" /\ settled' = "ok"
       /\ (ev' = "posted" /\ settled' \in {"status", "error"} /\ mounted)
          => /\ hasSubmitted' = hasSubmitted
             /\ ~isSubmitting'
             /\ (RestartOffered /\ ~hasSubmitted) => SubmitOffered']_vars

\* C36: no point is lost to retirement.  In every state an obstacle whose
\* trailing edge x + 52 is left of 50 is flagged passed.  A Running frame
\* moves an obstacle by 2 units at most, so an obstacle it removes had its
\* trailing edge within 2 units of 0 before the frame, was flagged passed
\* then, and its point is in the score; no obstacle has ever been retired
\* without the flag.
C36_NoPointLost ==
    [][/\ \A i \in DOMAIN gameState.pipes :
             gameState.pipes[i].x + 52 * 25000 < 50 * 25000
             => gameState.pipes[i].scored
       /\ RunningFrame
          => /\ \A i \in DOMAIN gameState.pipes :
                    /\ gameState.pipes[i].x - Advanced[i].x \in 0 .. 2 * 25000
                    /\ Removed(i)
                       => /\ gameState.pipes[i].scored
                          /\ gameState.pipes[i].x + 52 * 25000 > 0
                          /\ gameState.pipes[i].x + 52 * 25000 <= 2 * 25000
             /\ \A j \in DOMAIN gameState'.pipes :
                    \/ gameState'.pipes[j].x = 288 * 25000
                    \/ \E i \in DOMAIN gameState.pipes :
                           gameState'.pipes[j].x = Advanced[i].x
             /\ gameState'.score + Len(gameState.pipes)
                   >= gameState.score + Len(gameState'.pipes) - 1
             /\ retired'.scored - retired.scored
                   = Cardinality({i \in DOMAIN gameState.pipes : Removed(i)})
       /\ retired.unscored = 0
       /\ retired'.unscored = 0]_vars

\* the 171st frame of a run has removed the first obstacle, which was passed
\* some sixty frames earlier: the point is in the score
C36_Witness ==
    /\ ev = "frame"
    /\ gameState.frameCount = 171
    /\ retired = [scored |-> 1, unscored |-> 0]
    /\ gameState.score = 1
    /\ Len(gameState.pipes) = 1
    /\ ~gameState.pipes[1].scored

\* C37: in every state the sequence holds at most 2 obstacles, and of two
\* obstacles the second is more than 200 units right of the first.  The
\* distance is that of the spawn and a frame that keeps both leaves it as it
\* is.  Hence a frame adds at most 1 to the score, and a frame that adds to
\* the score leaves the body overlapping no obstacle.
C37_TwoObstaclesApart ==
    [][LET apart(pipes) ==
               /\ Len(pipes) <= 2
               /\ \A i \in 1 .. Len(pipes) - 1 :
                      pipes[i + 1].x - pipes[i].x > 200 * 25000
       IN  /\ apart(gameState.pipes)
           /\ apart(gameState'.pipes)
           /\ (RunningFrame /\ Len(gameState.pipes) = 2 /\ ~Removed(1))
              => /\ Len(gameState'.pipes) = 2
                 /\ gameState'.pipes[2].x - gameState'.pipes[1].x
                       = gameState.pipes[2].x - gameState.pipes[1].x
           /\ (RunningFrame /\ Spawned /\ Len(gameState'.pipes) = 2)
              => gameState'.pipes[2].x - gameState'.pipes[1].x <= 202 * 25000
           /\ gameState'.score - gameState.score <= 1
           /\ gameState'.score > gameState.score
              => \A i \in DOMAIN gameState'.pipes : ~Overlaps(gameState', i)]_vars

\* a frame has scored the first of two obstacles that stand 202 units
\* apart, the second still to come
C37_Witness ==
    /\ ev = "frame"
    /\ steps > 0
    /\ Len(gameState.pipes) = 2
    /\ gameState.pipes[2].x - gameState.pipes[1].x = 202 * 25000
    /\ gameState.pipes[1].scored
    /\ ~gameState.pipes[2].scored
    /\ gameState.score = 1
    /\ pendingSounds = <<"point">>

\* C38: between two handlers, while the phase is Running, the body's y is
\* within [0, 512], both ends included.  A frame callback that leaves y
\* outside [0, 512] leaves the phase Over, and a click, touch or Space never
\* changes y.
C38_BodyWithinBounds ==
    [][LET within(state) ==
               Phase(state) = "Running"
               => state.bird.y >= 0 /\ state.bird.y <= 512 * 25000
       IN  /\ within(gameState)
           /\ within(gameState')
           /\ (ev' = "frame" /\ Outside(gameState'))
              => Phase(gameState') = "Over" /\ isGameOver'
           /\ ev' \in Inputs => gameState'.bird.y = gameState.bird.y]_vars

\* a frame has put the body at y = 512 exactly, falling, and the run goes on
C38_Witness ==
    /\ ev = "frame"
    /\ steps > 0
    /\ gameState.bird.y = 512 * 25000
    /\ gameState.bird.velocity > 0
    /\ Phase(gameState) = "Running"
    /\ ~isGameOver

\* C39: a run left to itself ends.  From any state in which the session is
\* Running, the next frame callback is requested and, from then on, nothing
\* but frame callbacks run, each a positive time after the one before, the
\* phase eventually becomes Over.
C39_RunEnds ==
    (steps >= FallPrefix /\ Phase(gameState) = "Running" /\ frameRequests > 0)
        ~> (Phase(gameState) = "Over")

\* a run left to itself has ended on an obstacle, a hundred frames or more
\* after the last input
C39_Witness ==
    /\ ev = "frame"
    /\ steps >= 100
    /\ Phase(gameState) = "Over"
    /\ gameState.bird.y <= 512 * 25000
    /\ gameState.bird.y >= 0

\* ------------------------------------------------------------------------
\* The frontend without accounts (src/unnamed/part_000)
\*
\* The same component, laid out differently and without the login.  Its
\* handlers are written from its own text as functions of the session
\* m = [state, lastJumpTime, lastFrameTime], in the units of the model.
\* ------------------------------------------------------------------------

\* jump, with Date.now() = now
part000_jump(m, now) ==
    IF now - m.lastJumpTime < JUMP_COOLDOWN
    THEN m
    ELSE LET stamped == [m EXCEPT !.lastJumpTime = now]
         IN  IF ~m.state.gameOver /\ m.state.gameStarted
             THEN [stamped EXCEPT !.state.bird.velocity = -(JUMP_STRENGTH * DtScale)]
             ELSE IF ~m.state.gameStarted
             THEN [stamped EXCEPT !.state.gameStarted = TRUE, !.lastFrameTime = 0]
             ELSE stamped

\* if (gameStateRef.current.gameOver) return; jump()
part000_handleCanvasClick(m, now) ==
    IF m.state.gameOver THEN m ELSE part000_jump(m, now)

\* e.preventDefault(); e.stopPropagation();
\* if (gameStateRef.current.gameOver) return; jump()
part000_handleTouchStart(m, now) ==
    IF m.state.gameOver THEN m ELSE part000_jump(m, now)

\* keydown with e.code === "Space"
part000_handleKeyPress(m, now) ==
    IF ~m.state.gameStarted
    THEN [m EXCEPT !.state.gameStarted = TRUE, !.lastFrameTime = 0]
    ELSE IF ~m.state.gameOver
    THEN part000_jump(m, now)
    ELSE m

\* restartGame: a new session object, lastFrameTimeRef.current = 0
part000_restartGame(m) ==
    [m EXCEPT !.state = [bird |-> [y |-> Px(200), velocity |-> 0, frame |-> 0],
                         pipes |-> <<>>, score |-> 0, gameOver |-> FALSE,
                         gameStarted |-> TRUE, frameCount |-> 0],
              !.lastFrameTime = 0]

\* gameLoop(currentTime), with topHeight the height a spawn would draw
part000_gameLoop(m, currentTime, topHeight) ==
    LET state == m.state
        last == IF m.lastFrameTime = 0 THEN currentTime ELSE m.lastFrameTime
        ratio == ((currentTime - last) * TARGET_FPS * DtScale) \div 1000
        deltaTime == IF ratio < MAX_DELTA_TIME * DtScale
                     THEN ratio ELSE MAX_DELTA_TIME * DtScale
        velocity == state.bird.velocity + GRAVITY * deltaTime
        y == state.bird.y + velocity * deltaTime
        frameCount == state.frameCount + 1
        frame == IF frameCount % 5 = 0
                 THEN (state.bird.frame + 1) % 3 ELSE state.bird.frame
        moved == [i \in 1..Len(state.pipes) |->
                     [state.pipes[i] EXCEPT !.x = @ - PIPE_SPEED * deltaTime * VelScale]]
        left == SelectSeq(moved, LAMBDA pipe : ~(pipe.x + Px(PIPE_WIDTH) <= 0))
        pipes == IF Len(left) = 0 \/ left[Len(left)].x < Px(CANVAS_WIDTH) - Px(200)
                 THEN Append(left, [x |-> Px(CANVAS_WIDTH), topHeight |-> topHeight,
                                    scored |-> FALSE])
                 ELSE left
        RECURSIVE ForPipes(_, _, _)
        ForPipes(ps, i, score) ==
            IF i > Len(ps)
            THEN [pipes |-> ps, score |-> score, gameOver |-> FALSE]
            ELSE LET pipe == ps[i]
                     passed == ~pipe.scored /\ pipe.x + Px(PIPE_WIDTH) < Px(50)
                     flagged == IF passed THEN [ps EXCEPT ![i].scored = TRUE] ELSE ps
                     counted == IF passed THEN score + 1 ELSE score
                     across == /\ Px(50) < pipe.x + Px(PIPE_WIDTH)
                               /\ Px(50) + Px(BIRD_WIDTH) > pipe.x
                     top == /\ across
                            /\ y < 0 + pipe.topHeight
                            /\ y + Px(BIRD_HEIGHT) > 0
                     bottom == /\ across
                               /\ y < (pipe.topHeight + Px(PIPE_GAP))
                                        + (Px(CANVAS_HEIGHT) - pipe.topHeight - Px(PIPE_GAP))
                               /\ y + Px(BIRD_HEIGHT) > pipe.topHeight + Px(PIPE_GAP)
                 IN  IF top \/ bottom
                     THEN [pipes |-> flagged, score |-> counted, gameOver |-> TRUE]
                     ELSE ForPipes(flagged, i + 1, counted)
        checked == ForPipes(pipes, 1, state.score)
        out == y > Px(CANVAS_HEIGHT) \/ y < 0
    IN  IF state.gameStarted /\ ~state.gameOver
        THEN [m EXCEPT !.lastFrameTime = currentTime,
                       !.state = [bird |-> [y |-> y, velocity |-> velocity, frame |-> frame],
                                  pipes |-> checked.pipes,
                                  score |-> checked.score,
                                  gameOver |-> checked.gameOver \/ out,
                                  gameStarted |-> TRUE,
                                  frameCount |-> frameCount]]
        ELSE [m EXCEPT !.lastFrameTime = currentTime]

\* the session of the component as the handlers read and write it
Session ==
    [state |-> gameState, lastJumpTime |-> lastJumpTime, lastFrameTime |-> lastFrameTime]

\* the sessions the frontend without accounts can be in after the handler of
\* this step, run on the session before it with the same wall-clock time,
\* frame timestamp and, for a spawn, one of the heights a draw can give
part000_After ==
    LET m == Session
        now == TimeOrigin + clock'
    IN  CASE ev' = "click" -> {part000_handleCanvasClick(m, now)}
          [] ev' = "touch" -> {part000_handleTouchStart(m, now)}
          [] ev' = "space" -> {part000_handleKeyPress(m, now)}
          [] ev' = "restart" -> {part000_restartGame(m)}
          [] ev' = "frame" -> {part000_gameLoop(m, clock', topHeight) :
                                   topHeight \in TopHeights}
          [] OTHER -> {m}

\* C40: the two frontends run the same simulation.  Whatever session the one
\* is in, a pointer press, a touch, a Space key, a restart or a frame
\* callback leaves it in the session the other is left in by its own handler
\* run on that session with the same times and the same draw: body, obstacle
\* sequence, score, phase and frame counter are equal, and so are the two
\* time stamps the next step depends on.
C40_SameSimulation ==
    [][ev' \in {"click", "touch", "space", "restart", "frame"}
           => Session' \in part000_After]_vars

\* a frame callback has scored in a run that goes on, and the next press
\* would be taken
C40_Witness ==
    /\ ev = "frame"
    /\ Phase(gameState) = "Running"
    /\ gameState.score = 1
    /\ Len(gameState.pipes) = 2
    /\ steps >= 2
    /\ part000_handleCanvasClick(Session, DateNow) # Session

\* ------------------------------------------------------------------------
\* Replay of the plans
\* ------------------------------------------------------------------------

ReplayNext(plan) ==
    LET running == gameState.gameStarted /\ ~gameState.gameOver
                   /\ gameState.frameCount < plan.frames
        click == (gameState.frameCount + 1) \in plan.clicks /\ ev # "click"
    IN  \/ ~assetsLoaded /\ assetsResolvedAt(200)
        \/ assetsLoaded /\ ~gameState.gameStarted /\ handleKeyPressAt(200)
        \/ running /\ click /\ handleCanvasClickAt(200)
        \/ running /\ ~click /\ gameLoopAt(200, plan.topHeight)

\* the plan has been carried out
Arrived(plan) == gameState.gameOver \/ gameState.frameCount = plan.frames

SpecReplayPreScore == Constructed /\ [][ReplayNext(PreScorePlan)]_vars
ReplayPreScore == Arrived(PreScorePlan) => Recorded = PreScore /\ visited = Xs(gameState.pipes) /\ Page = ResumedPage(PreScore)
ReplayPreScoreArrives == ~Arrived(PreScorePlan)

SpecReplayPreHit == Constructed /\ [][ReplayNext(PreHitPlan)]_vars
ReplayPreHit == Arrived(PreHitPlan) => Recorded = PreHit /\ visited = Xs(gameState.pipes) /\ Page = ResumedPage(PreHit)
ReplayPreHitArrives == ~Arrived(PreHitPlan)

SpecReplayPreSpawn == Constructed /\ [][ReplayNext(PreSpawnPlan)]_vars
ReplayPreSpawn == Arrived(PreSpawnPlan) => Recorded = PreSpawn /\ visited = Xs(gameState.pipes) /\ Page = ResumedPage(PreSpawn)
ReplayPreSpawnArrives == ~Arrived(PreSpawnPlan)

SpecReplayPreDouble == Constructed /\ [][ReplayNext(PreDoublePlan)]_vars
ReplayPreDouble == Arrived(PreDoublePlan) => Recorded = PreDouble /\ visited = Xs(gameState.pipes) /\ Page = ResumedPage(PreDouble)
ReplayPreDoubleArrives == ~Arrived(PreDoublePlan)

SpecReplayPreGround == Constructed /\ [][ReplayNext(PreGroundPlan)]_vars
ReplayPreGround == Arrived(PreGroundPlan) => Recorded = PreGround /\ visited = Xs(gameState.pipes) /\ Page = ResumedPage(PreGround)
ReplayPreGroundArrives == ~Arrived(PreGroundPlan)

SpecReplayPreTop == Constructed /\ [][ReplayNext(PreTopPlan)]_vars
ReplayPreTop == Arrived(PreTopPlan) => Recorded = PreTop /\ visited = Xs(gameState.pipes) /\ Page = ResumedPage(PreTop)
ReplayPreTopArrives == ~Arrived(PreTopPlan)

SpecReplayPreRetire == Constructed /\ [][ReplayNext(PreRetirePlan)]_vars
ReplayPreRetire == Arrived(PreRetirePlan) => Recorded = PreRetire /\ visited = Xs(gameState.pipes) /\ Page = ResumedPage(PreRetire)
ReplayPreRetireArrives == ~Arrived(PreRetirePlan)

SpecReplayOverSeven == Constructed /\ [][ReplayNext(OverSevenPlan)]_vars
ReplayOverSeven == Arrived(OverSevenPlan) => Recorded = OverSeven /\ visited = Xs(gameState.pipes) /\ Page = ResumedPage(OverSeven)
ReplayOverSevenArrives == ~Arrived(OverSevenPlan)

====
